---- MODULE Spec2Model ----
(***************************************************************************)
(* A model of the AIDE "ai-learning-tool" extension core:                  *)
(*   - CacheService (cache-service.ts, src/unnamed/part_002): two          *)
(*     insertion-ordered maps with TTL expiry and LRU size bounding;       *)
(*   - getAiCompletion (ai-service.ts): the provider cache round trip      *)
(*     around the completion backend;                                      *)
(*   - AiCompletionProvider (completion-provider.ts): the debounce timer   *)
(*     and the isProcessing single-flight flag;                            *)
(*   - ContextService (context-service.ts): the related-files merge and    *)
(*     the per-document memo of buildWorkspaceContext;                     *)
(*   - SearchService (search-service.ts): workspace, definition and        *)
(*     TODO search over files that may fail to open;                       *)
(*   - shouldTriggerCompletion (completion-provider.ts): the gate in       *)
(*     front of the debounce timer.                                        *)
(*                                                                         *)
(* Strings the code inspects are sequences of one-character strings; the   *)
(* lines that regular expressions run over are sequences of tokens.        *)
(* The clock unit is one minute: every TTL of the code is a whole number   *)
(* of minutes, and the expiry tests only compare and add times.            *)
(***************************************************************************)
EXTENDS Integers, Sequences, FiniteSets, TLC

VARIABLES
    now,              \* Date.now()
    completionCache,  \* CacheService.completionCache, in Map insertion order
    contextCache,     \* CacheService.contextCache, in Map insertion order
    ret,              \* the last call made on the service and what it returned
    dropped,          \* history: the entries the last call removed, and why
    input,            \* the pair of prompts under test in SpecNormalize
    isProcessing,     \* AiCompletionProvider.isProcessing
    debounceTimer,    \* AiCompletionProvider.debounceTimer: 0 (undefined) or the
                      \* request whose setTimeout handle it holds
    requests,         \* the calls of provideInlineCompletionItems, in order
    memo              \* ContextService.contextCache: uri -> WorkspaceContext

vars == <<now, completionCache, contextCache, ret, dropped, input,
          isProcessing, debounceTimer, requests, memo>>

\* what the cache service's methods leave alone
others == <<input, isProcessing, debounceTimer, requests, memo>>

(***************************************************************************)
(* Bounds of the model.                                                    *)
(***************************************************************************)
MaxTime == 3          \* the clock stops advancing here (SpecTtl)
MaxLruTime == 1       \* the clock stops advancing here (SpecCompletion, SpecTotal)
MaxAccess == 1        \* hits counted per entry before further hits are cut off
MaxEntryTime == 2     \* the clock stops advancing here (SpecEntries)
MaxPromptLen == 3     \* longest prompt, in characters (SpecNormalize)
maxCacheSize == 2     \* CacheService.maxCacheSize (1000 in the code), scaled

(***************************************************************************)
(* Program constants, in minutes.                                          *)
(***************************************************************************)
defaultTtl == 5
completionTtl == 2

Null == "null"
Data == {"x", "y"}
CompletionData == {"x"}
ResponseData == {"y"}

(***************************************************************************)
(* Strings.                                                                *)
(***************************************************************************)
Chars == {"a", "A", " "}

RECURSIVE SeqsUpTo(_, _)
SeqsUpTo(S, n) ==
    IF n = 0 THEN {<<>>}
    ELSE LET shorter == SeqsUpTo(S, n - 1)
         IN  shorter \cup {Append(s, c) : s \in shorter, c \in S}

Prompts == SeqsUpTo(Chars, MaxPromptLen)

IsSpace(c) == c = " "

\* String.prototype.trim
RECURSIVE TrimLeft(_)
TrimLeft(s) ==
    IF s = <<>> THEN s
    ELSE IF IsSpace(Head(s)) THEN TrimLeft(Tail(s)) ELSE s

RECURSIVE TrimRight(_)
TrimRight(s) ==
    IF s = <<>> THEN s
    ELSE IF IsSpace(s[Len(s)]) THEN TrimRight(SubSeq(s, 1, Len(s) - 1)) ELSE s

trim(s) == TrimRight(TrimLeft(s))

\* String.prototype.toLowerCase
LowerChar(c) == IF c = "A" THEN "a" ELSE c
toLowerCase(s) == [i \in 1..Len(s) |-> LowerChar(s[i])]

\* replace(/\s+/g, ' '): every maximal run of whitespace becomes one space
RECURSIVE CollapseWhitespace(_)
CollapseWhitespace(s) ==
    IF s = <<>> THEN s
    ELSE IF IsSpace(Head(s))
         THEN <<" ">> \o CollapseWhitespace(TrimLeft(Tail(s)))
         ELSE <<Head(s)>> \o CollapseWhitespace(Tail(s))

\* crypto md5 digest: collision-free on the modelled prompts; a digest is hex,
\* so it never contains ':' and never equals a provider-prefixed key
md5(s) == <<"#">> \o s

\* a slip that forgets toLowerCase
hashPromptNoCaseFold(prompt) == md5(CollapseWhitespace(trim(prompt)))

hashPrompt(prompt) == md5(CollapseWhitespace(toLowerCase(trim(prompt))))

(***************************************************************************)
(* Map<string, CacheEntry>: a sequence of [key, entry] in insertion order. *)
(***************************************************************************)
MapKeys(cache) == {cache[i].key : i \in 1..Len(cache)}
MapHas(cache, k) == k \in MapKeys(cache)
MapIndex(cache, k) == CHOOSE i \in 1..Len(cache) : cache[i].key = k
MapGet(cache, k) == cache[MapIndex(cache, k)].entry

\* Map.set keeps the position of a key that is already present
\* a slip that adds a second entry under a key that is held
MapSetAppends(cache, k, e) == Append(cache, [key |-> k, entry |-> e])

MapSet(cache, k, e) ==
    IF MapHas(cache, k)
    THEN [cache EXCEPT ![MapIndex(cache, k)] = [key |-> k, entry |-> e]]
    ELSE Append(cache, [key |-> k, entry |-> e])

\* the map with only the keys of `keys` left, order kept
KeepKeys(cache, keys) ==
    LET F[i \in 0..Len(cache)] ==
            IF i = 0 THEN <<>>
            ELSE IF cache[i].key \in keys THEN Append(F[i - 1], cache[i])
                 ELSE F[i - 1]
    IN  F[Len(cache)]

MapDelete(cache, k) == KeepKeys(cache, MapKeys(cache) \ {k})

NewEntry(data, ttl, t) ==
    [data |-> data, timestamp |-> t, expiry |-> t + ttl,
     accessCount |-> 0, lastAccessed |-> t]

\* a slip that sorts newest first
SortRankNewestFirst(cache, i) ==
    Cardinality({j \in 1..Len(cache) :
        \/ cache[j].entry.lastAccessed > cache[i].entry.lastAccessed
        \/ /\ cache[j].entry.lastAccessed = cache[i].entry.lastAccessed
           /\ j < i})

\* rank of item i in entries.sort((a, b) => a.lastAccessed - b.lastAccessed);
\* Array.prototype.sort is stable
SortRank(cache, i) ==
    Cardinality({j \in 1..Len(cache) :
        \/ cache[j].entry.lastAccessed < cache[i].entry.lastAccessed
        \/ /\ cache[j].entry.lastAccessed = cache[i].entry.lastAccessed
           /\ j < i})

\* for (let i = 0; i < toRemove; i++) cache.delete(entries[i][0])
enforceMaxSize(cache) ==
    IF Len(cache) <= maxCacheSize THEN cache
    ELSE LET toRemove == Len(cache) - maxCacheSize
         IN  KeepKeys(cache, {cache[i].key : i \in {j \in 1..Len(cache) :
                                  SortRank(cache, j) >= toRemove}})

(***************************************************************************)
(* CacheService methods as functions of the map and the clock.             *)
(***************************************************************************)
\* a slip that treats the instant of expiry as expired
ExpiredAtExpiry(entry, t) == t >= entry.expiry

\* if (Date.now() > entry.expiry)
Expired(entry, t) == t > entry.expiry

\* a slip that reports an expired entry absent and leaves it in the map
LookupKeepsExpired(cache, k, t) ==
    IF ~MapHas(cache, k) \/ Expired(MapGet(cache, k), t)
    THEN [cache |-> cache, value |-> Null]
    ELSE LET e == MapGet(cache, k)
         IN  [cache |-> MapSet(cache, k,
                           [e EXCEPT !.accessCount = @ + 1,
                                     !.lastAccessed = t]),
              value |-> e.data]

\* the body shared by getCachedCompletion and getCachedContext
Lookup(cache, k, t) ==
    IF ~MapHas(cache, k) THEN [cache |-> cache, value |-> Null]
    ELSE IF Expired(MapGet(cache, k), t)
         THEN [cache |-> MapDelete(cache, k), value |-> Null]
         ELSE LET e == MapGet(cache, k)
              IN  [cache |-> MapSet(cache, k,
                                [e EXCEPT !.accessCount = @ + 1,
                                          !.lastAccessed = t]),
                   value |-> e.data]

\* ttl || this.defaultTtl: undefined, 0 and NaN are falsy
Num(n) == [kind |-> "number", n |-> n]
NaN == [kind |-> "NaN", n |-> 0]
Undefined == [kind |-> "undefined", n |-> 0]
Falsy(ttl) == ttl.kind # "number" \/ ttl.n = 0
TtlOrDefault(ttl) == IF Falsy(ttl) THEN defaultTtl ELSE ttl.n

\* for (const [key, entry] of cache) if (now > entry.expiry) cache.delete(key)
Sweep(cache, t) ==
    KeepKeys(cache, {cache[i].key : i \in {j \in 1..Len(cache) :
                         ~Expired(cache[j].entry, t)}})

\* ret: the call (op, provider, arg, ttl) and the value it returned
Ret(op, provider, arg, ttl, value) ==
    [op |-> op, provider |-> provider, arg |-> arg, ttl |-> ttl, value |-> value]

(***************************************************************************)
(* Actions of the cache service.  Each is one synchronous method call.     *)
(***************************************************************************)
Dropped(before, after, why) ==
    {[key |-> before[i].key, why |-> why, entry |-> before[i].entry] :
        i \in {j \in 1..Len(before) : before[j].key \notin MapKeys(after)}}

\* a prompt argument that is null or undefined (null as any), set apart
\* from every string
NullPrompt == <<"null">>
UndefinedPrompt == <<"undefined">>
IsNullish(prompt) == prompt \in {NullPrompt, UndefinedPrompt}

\* what ret.value holds when the call threw: prompt.trim() on null or
\* undefined in hashPrompt
TypeError == "TypeError"

\* the call leaves by the exception of hashPrompt, before it touches a map
ThrowsTypeError(op, prompt) ==
    /\ ret' = Ret(op, "", prompt, Undefined, TypeError)
    /\ dropped' = {}
    /\ UNCHANGED <<now, completionCache, contextCache, others>>

cacheCompletion(prompt, completion) ==
    IF IsNullish(prompt) THEN ThrowsTypeError("cacheCompletion", prompt)
    ELSE
    LET stored == MapSet(completionCache, hashPrompt(prompt),
                         NewEntry(completion, completionTtl, now))
    IN  /\ completionCache' = enforceMaxSize(stored)
        /\ dropped' = Dropped(stored, completionCache', "lru")
        /\ ret' = Ret("cacheCompletion", "", prompt, Undefined, completion)
        /\ UNCHANGED <<now, contextCache, others>>

\* the hit counter of the model is finite: no hit beyond MaxAccess
CanHit(cache, k) ==
    MapHas(cache, k) /\ ~Expired(MapGet(cache, k), now)
        => MapGet(cache, k).accessCount < MaxAccess

getCachedCompletion(prompt) ==
    IF IsNullish(prompt) THEN ThrowsTypeError("getCachedCompletion", prompt)
    ELSE
    LET r == Lookup(completionCache, hashPrompt(prompt), now)
    IN  /\ CanHit(completionCache, hashPrompt(prompt))
        /\ completionCache' = r.cache
        /\ dropped' = Dropped(completionCache, r.cache, "expired")
        /\ ret' = Ret("getCachedCompletion", "", prompt, Undefined, r.value)
        /\ UNCHANGED <<now, contextCache, others>>

cacheContext(key, data, ttl) ==
    LET stored == MapSet(contextCache, key, NewEntry(data, TtlOrDefault(ttl), now))
    IN  /\ contextCache' = enforceMaxSize(stored)
        /\ dropped' = Dropped(stored, contextCache', "lru")
        /\ ret' = Ret("cacheContext", "", key, ttl, data)
        /\ UNCHANGED <<now, completionCache, others>>

getCachedContext(key) ==
    LET r == Lookup(contextCache, key, now)
    IN  /\ CanHit(contextCache, key)
        /\ contextCache' = r.cache
        /\ dropped' = Dropped(contextCache, r.cache, "expired")
        /\ ret' = Ret("getCachedContext", "", key, Undefined, r.value)
        /\ UNCHANGED <<now, completionCache, others>>

\* const ttlMap = {...}; ttlMap[provider] || this.completionTtl
ProviderTtl(provider) ==
    CASE provider = "claude" -> 5
      [] provider = "openai" -> 3
      [] provider = "local" -> 10
      [] provider = "cursor" -> 1
      [] OTHER -> completionTtl

\* `${provider}:${this.hashPrompt(prompt)}`
ProviderKey(provider, prompt) == <<provider, ":">> \o hashPrompt(prompt)

\* completionCache.set(key, entry) and nothing more: no enforceMaxSize
ProviderStore(cache, provider, prompt, response, t) ==
    MapSet(cache, ProviderKey(provider, prompt),
           NewEntry(response, ProviderTtl(provider), t))

\* computes the provider key, then returns this.getCachedCompletion(prompt)
ProviderLookup(cache, provider, prompt, t) == Lookup(cache, hashPrompt(prompt), t)

cacheProviderResponse(provider, prompt, response) ==
    /\ completionCache' =
           ProviderStore(completionCache, provider, prompt, response, now)
    /\ dropped' = {}
    /\ ret' = Ret("cacheProviderResponse", provider, prompt, Undefined, response)
    /\ UNCHANGED <<now, contextCache, others>>

getCachedProviderResponse(provider, prompt) ==
    LET r == ProviderLookup(completionCache, provider, prompt, now)
    IN  /\ CanHit(completionCache, hashPrompt(prompt))
        /\ completionCache' = r.cache
        /\ dropped' = Dropped(completionCache, r.cache, "expired")
        /\ ret' = Ret("getCachedProviderResponse", provider, prompt, Undefined, r.value)
        /\ UNCHANGED <<now, contextCache, others>>

\* the setInterval callback of the constructor
cleanup ==
    LET completions == Sweep(completionCache, now)
        contexts == Sweep(contextCache, now)
    IN  /\ completionCache' = enforceMaxSize(completions)
        /\ contextCache' = enforceMaxSize(contexts)
        /\ dropped' = Dropped(completionCache, completions, "expired")
                          \cup Dropped(contextCache, contexts, "expired")
                          \cup Dropped(completions, completionCache', "lru")
                          \cup Dropped(contexts, contextCache', "lru")
        /\ ret' = Ret("cleanup", "", <<>>, Undefined, Null)
        /\ UNCHANGED <<now, others>>

\* time passes between two calls
Tick(limit) ==
    /\ now < limit
    /\ now' = now + 1
    /\ dropped' = {}
    /\ ret' = Ret("tick", "", <<>>, Undefined, Null)
    /\ UNCHANGED <<completionCache, contextCache, others>>

\* new Map<string, WorkspaceContext>()
NoMemo == [u \in {} |-> Null]

\* the state after the constructor: both maps empty
Init ==
    /\ now = 0
    /\ completionCache = <<>>
    /\ contextCache = <<>>
    /\ ret = Ret("init", "", <<>>, Undefined, Null)
    /\ dropped = {}
    /\ input = <<>>
    /\ isProcessing = FALSE
    /\ debounceTimer = 0
    /\ requests = <<>>
    /\ memo = NoMemo

\* as Init, with the two prompts under test drawn from Prompts
InitNormalize ==
    /\ now = 0
    /\ completionCache = <<>>
    /\ contextCache = <<>>
    /\ ret = Ret("init", "", <<>>, Undefined, Null)
    /\ dropped = {}
    /\ input \in Prompts \X Prompts
    /\ isProcessing = FALSE
    /\ debounceTimer = 0
    /\ requests = <<>>
    /\ memo = NoMemo

(***************************************************************************)
(* SpecTtl: both namespaces, one key each, every kind of ttl argument.     *)
(***************************************************************************)
ContextKeys == {<<"k">>}
TtlPrompts == {<<"p">>}
TtlInputs == {Num(-1), Num(0), Num(1), NaN, Undefined}

NextTtl ==
    \/ \E k \in ContextKeys, d \in Data, ttl \in TtlInputs : cacheContext(k, d, ttl)
    \/ \E k \in ContextKeys : getCachedContext(k)
    \/ \E p \in TtlPrompts, c \in CompletionData : cacheCompletion(p, c)
    \/ \E p \in TtlPrompts : getCachedCompletion(p)
    \/ cleanup
    \/ Tick(MaxTime)

SpecTtl == Init /\ [][NextTtl]_vars

(***************************************************************************)
(* SpecCompletion: the completion namespace under LRU pressure, with the   *)
(* provider-keyed entries beside the plain ones.                           *)
(***************************************************************************)

LruPrompts == {<<"p">>, <<"q">>, <<"r">>}
ProviderPrompts == {<<"p">>}
ProviderInputs == {"claude"}

NextCompletion ==
    \/ \E p \in LruPrompts, c \in CompletionData : cacheCompletion(p, c)
    \/ \E p \in LruPrompts : getCachedCompletion(p)
    \/ \E pr \in ProviderInputs, p \in ProviderPrompts, r \in ResponseData :
           cacheProviderResponse(pr, p, r)
    \/ \E pr \in ProviderInputs, p \in ProviderPrompts :
           getCachedProviderResponse(pr, p)
    \/ cleanup
    \/ Tick(MaxLruTime)

SpecCompletion == Init /\ [][NextCompletion]_vars

(***************************************************************************)
(* SpecNormalize: cacheCompletion and getCachedCompletion on two prompts   *)
(* drawn from every string of at most MaxPromptLen characters.  The first  *)
(* prompt is stored with "x", the second with "y"; the clock stands still, *)
(* so no entry expires.                                                    *)
(***************************************************************************)
DataOf(i) == IF i = 1 THEN "x" ELSE "y"

NextNormalize ==
    \/ \E i \in {1, 2} : cacheCompletion(input[i], DataOf(i))
    \/ \E i \in {1, 2} : getCachedCompletion(input[i])

SpecNormalize == InitNormalize /\ [][NextNormalize]_vars

(***************************************************************************)
(* File and workspace entries of the context namespace, and their          *)
(* invalidation.  A URI is a sequence of characters; the fixed parts of a   *)
(* key ("file:", "workspace:", ":") are single elements.                   *)
(***************************************************************************)
fileContentTtl == 10
workspaceAnalysisTtl == 15

\* `file:${uri.toString()}:${version}`
FileKey(uri, version) == <<"file:">> \o uri \o <<":", version>>

\* `workspace:${workspaceId}`
WorkspaceKey(workspaceId) == <<"workspace:">> \o workspaceId

cacheFileContent(uri, content, version) ==
    cacheContext(FileKey(uri, version), content, Num(fileContentTtl))

getCachedFileContent(uri, version) == getCachedContext(FileKey(uri, version))

cacheWorkspaceAnalysis(workspaceId, analysis) ==
    cacheContext(WorkspaceKey(workspaceId), analysis, Num(workspaceAnalysisTtl))

getCachedWorkspaceAnalysis(workspaceId) ==
    getCachedContext(WorkspaceKey(workspaceId))

\* a test that matches only a key equal to the URI
includesWhole(key, sub) == key = sub

\* key.includes(uriString)
includes(key, sub) ==
    \E i \in 1..(Len(key) - Len(sub) + 1) :
        SubSeq(key, i, i + Len(sub) - 1) = sub

\* key.startsWith('workspace:')
startsWith(key, prefix) ==
    Len(key) >= Len(prefix) /\ SubSeq(key, 1, Len(prefix)) = prefix

invalidateFileCache(uri) ==
    /\ contextCache' =
           KeepKeys(contextCache,
                    {k \in MapKeys(contextCache) : ~includes(k, uri)})
    /\ dropped' = Dropped(contextCache, contextCache', "invalidated")
    /\ ret' = Ret("invalidateFileCache", "", uri, Undefined, Null)
    /\ UNCHANGED <<now, completionCache, others>>

invalidateWorkspaceCache ==
    /\ contextCache' =
           KeepKeys(contextCache,
                    {k \in MapKeys(contextCache) :
                        ~startsWith(k, <<"workspace:">>)})
    /\ dropped' = Dropped(contextCache, contextCache', "invalidated")
    /\ ret' = Ret("invalidateWorkspaceCache", "", <<>>, Undefined, Null)
    /\ UNCHANGED <<now, completionCache, others>>

(***************************************************************************)
(* SpecInvalidate: file, workspace and plain context entries, and the two  *)
(* notifications of the extension's watchers.                              *)
(***************************************************************************)
Uris == {<<"u">>, <<"u", "x">>, <<"w">>}
Versions == {"1", "2"}
WorkspaceIds == {<<"w">>}
PlainKeys == {<<"k">>}
FileData == {"x"}

NextInvalidate ==
    \/ \E u \in Uris, v \in Versions, d \in FileData : cacheFileContent(u, d, v)
    \/ \E u \in Uris, v \in Versions : getCachedFileContent(u, v)
    \/ \E w \in WorkspaceIds, d \in FileData : cacheWorkspaceAnalysis(w, d)
    \/ \E w \in WorkspaceIds : getCachedWorkspaceAnalysis(w)
    \/ \E k \in PlainKeys, d \in FileData : cacheContext(k, d, Undefined)
    \/ \E k \in PlainKeys : getCachedContext(k)
    \/ \E u \in Uris : invalidateFileCache(u)
    \/ invalidateWorkspaceCache

SpecInvalidate == Init /\ [][NextInvalidate]_vars


(***************************************************************************)
(* SpecTotal: the five cache operations on keys that were never stored,    *)
(* on malformed ttl arguments and on null and undefined prompts.           *)
(***************************************************************************)
TotalPrompts == {<<"p">>, NullPrompt, UndefinedPrompt}
TotalKeys == {<<"k">>, FileKey(<<"u">>, "1")}
TotalUris == {<<"u">>, <<"w">>}

NextTotal ==
    \/ \E p \in TotalPrompts, c \in CompletionData : cacheCompletion(p, c)
    \/ \E p \in TotalPrompts : getCachedCompletion(p)
    \/ \E k \in TotalKeys, d \in FileData, ttl \in TtlInputs :
           cacheContext(k, d, ttl)
    \/ \E k \in TotalKeys : getCachedContext(k)
    \/ \E u \in TotalUris : invalidateFileCache(u)
    \/ Tick(MaxLruTime)

SpecTotal == Init /\ [][NextTotal]_vars


(***************************************************************************)
(* SpecEntries: two context keys and one prompt, set, overwritten, read    *)
(* and left to expire, with getCacheStats read in between.                 *)
(***************************************************************************)
\* a slip that stops the sum at the first entry
HitsOfFirst(cache) ==
    IF cache = <<>> THEN 0 ELSE Head(cache).entry.accessCount

\* .reduce((sum, entry) => sum + entry.accessCount, 0)
Hits(cache) ==
    LET sum[i \in 0..Len(cache)] ==
            IF i = 0 THEN 0 ELSE sum[i - 1] + cache[i].entry.accessCount
    IN  sum[Len(cache)]

\* the sizes and hit sums getCacheStats returns; memoryUsage, an estimate
\* in bytes, is left out
Stats(completions, contexts) ==
    [completions |-> [size |-> Len(completions), hits |-> Hits(completions),
                      misses |-> 0],
     context |-> [size |-> Len(contexts), hits |-> Hits(contexts),
                  misses |-> 0]]

\* ret.value is a string in every call of the cache service; the record of
\* getCacheStats is written out
getCacheStats ==
    /\ ret' = Ret("getCacheStats", "", <<>>, Undefined,
                  ToString(Stats(completionCache, contextCache)))
    /\ dropped' = {}
    /\ UNCHANGED <<now, completionCache, contextCache, others>>

EntryKeys == {<<"k">>, <<"m">>}
EntryTtls == {Num(1)}

NextEntries ==
    \/ \E k \in EntryKeys, d \in Data, ttl \in EntryTtls :
           cacheContext(k, d, ttl)
    \/ \E k \in EntryKeys : getCachedContext(k)
    \/ \E p \in TtlPrompts, c \in CompletionData : cacheCompletion(p, c)
    \/ \E p \in TtlPrompts : getCachedCompletion(p)
    \/ getCacheStats
    \/ Tick(MaxEntryTime)

SpecEntries == Init /\ [][NextEntries]_vars

(***************************************************************************)
(* ContextService.  The workspace the builders read (open tabs, directory  *)
(* listing, resolved imports, name-similar files) is held in input; a      *)
(* build is one action: it reads one snapshot of that workspace.           *)
(* Relevance scores are in tenths (1.0 is 10).                             *)
(***************************************************************************)
maxRelatedFiles == 2  \* ContextService.maxRelatedFiles (5 in the code), scaled

Files == {"f", "g", "h"}
FileOrder == <<"f", "g", "h">>
ContextDocs == {"a"}
Texts == {"t1", "t2"}

NoEditor == [kind |-> "none"]
\* what a call that returns nothing leaves in ret
Void == [kind |-> "void"]
Editor(uri, text) == [kind |-> "editor", uri |-> uri, text |-> text]
Editors == {NoEditor} \cup {Editor(d, t) : d \in ContextDocs, t \in Texts}

\* the workspaces: the files open in tabs, the code files of the current
\* file's directory, the files the current file imports by a relative path,
\* and the files with a similar name; the files openTextDocument rejects,
\* and which of readDirectory ("dir") and findFiles ("similar") reject
Workspaces ==
    [open : SUBSET Files, dir : SUBSET Files,
     imported : SUBSET Files, similar : SUBSET Files,
     unreadable : {{}}, failing : {{}}]

FileContext(uri, isOpen, relevanceScore) ==
    [uri |-> uri, isOpen |-> isOpen, relevanceScore |-> relevanceScore]

\* the files of a search, in the order the search lists them
RECURSIVE Found(_, _, _, _)
Found(order, files, isOpen, score) ==
    IF order = <<>> THEN <<>>
    ELSE (IF Head(order) \in files
          THEN <<FileContext(Head(order), isOpen, score)>> ELSE <<>>)
         \o Found(Tail(order), files, isOpen, score)

\* try { openTextDocument(uri) ... } catch { continue }
Readable(ws, files) == files \ ws.unreadable

getOpenEditorFiles(ws) == Found(FileOrder, Readable(ws, ws.open), TRUE, 8)

findSameDirectoryFiles(ws) ==
    IF "dir" \in ws.failing THEN <<>>
    ELSE Found(FileOrder, Readable(ws, ws.dir), FALSE, 6)

\* the import specifiers written in the current file: "./f" for every file of
\* ws.imported, in file order, then the bare module "m"
RECURSIVE Written(_, _)
Written(order, files) ==
    IF order = <<>> THEN << <<"m">> >>
    ELSE (IF Head(order) \in files
          THEN << <<".", "/", Head(order)>> >> ELSE <<>>)
         \o Written(Tail(order), files)

\* imp && !imp.startsWith('.') && !imp.includes('node_modules')
KeepImport(imp) ==
    /\ imp # <<>>
    /\ ~startsWith(imp, <<".">>)
    /\ ~includes(imp, <<"node_modules">>)

\* the regular expressions collect every specifier; the filter drops some
extractImports(ws) == SelectSeq(Written(FileOrder, ws.imported), KeepImport)

\* only './' and '../' specifiers are resolved; every file of Files exists
\* under one of the extensions tried
resolveImportPath(importPath) ==
    IF \/ startsWith(importPath, <<".", "/">>)
       \/ startsWith(importPath, <<".", ".", "/">>)
    THEN importPath[Len(importPath)]
    ELSE Null

RECURSIVE ResolvedImports(_, _)
ResolvedImports(ws, imports) ==
    IF imports = <<>> THEN <<>>
    ELSE (IF /\ resolveImportPath(Head(imports)) # Null
             /\ resolveImportPath(Head(imports)) \notin ws.unreadable
          THEN <<FileContext(resolveImportPath(Head(imports)), FALSE, 7)>>
          ELSE <<>>)
         \o ResolvedImports(ws, Tail(imports))

findImportedFiles(ws) == ResolvedImports(ws, extractImports(ws))
findSimilarFiles(ws) ==
    IF "similar" \in ws.failing THEN <<>>
    ELSE Found(FileOrder, Readable(ws, ws.similar), FALSE, 4)

\* a merge that keeps every candidate
keepDuplicates(files) == files

\* files.filter: the first entry of each uri is kept, later ones dropped
deduplicateFiles(files) ==
    LET first(i) == \A j \in 1..(i - 1) : files[j].uri # files[i].uri
        kept == {i \in 1..Len(files) : first(i)}
        nth(n) == CHOOSE i \in kept :
                     Cardinality({j \in kept : j < i}) = n - 1
    IN  [n \in 1..Cardinality(kept) |-> files[nth(n)]]

\* a sort that is not stable: of two files with the same score the one
\* found later comes first
sortTiesReversed(files) ==
    LET before(i, j) ==
            \/ files[i].relevanceScore > files[j].relevanceScore
            \/ files[i].relevanceScore = files[j].relevanceScore /\ i > j
        rank(i) == Cardinality({j \in 1..Len(files) : before(j, i)}) + 1
    IN  [n \in 1..Len(files) |->
            files[CHOOSE i \in 1..Len(files) : rank(i) = n]]

\* .sort((a, b) => b.relevanceScore - a.relevanceScore): stable, descending
sortByRelevance(files) ==
    LET before(i, j) ==
            \/ files[i].relevanceScore > files[j].relevanceScore
            \/ files[i].relevanceScore = files[j].relevanceScore /\ i < j
        rank(i) == Cardinality({j \in 1..Len(files) : before(j, i)}) + 1
    IN  [n \in 1..Len(files) |->
            files[CHOOSE i \in 1..Len(files) : rank(i) = n]]

\* .slice(0, count)
slice(files, count) ==
    SubSeq(files, 1, IF Len(files) < count THEN Len(files) ELSE count)

findRelatedFiles(ws) ==
    slice(sortByRelevance(deduplicateFiles(
              getOpenEditorFiles(ws) \o findSameDirectoryFiles(ws)
                  \o findImportedFiles(ws) \o findSimilarFiles(ws))),
          maxRelatedFiles)

\* an empty context that names the workspace
getNamedEmptyContext ==
    [currentFile |-> Null, relatedFiles |-> <<>>, imports |-> <<>>,
     projectType |-> "node", workspaceName |-> "ws"]

getEmptyContext ==
    [currentFile |-> Null, relatedFiles |-> <<>>, imports |-> <<>>,
     projectType |-> "unknown", workspaceName |-> "unknown"]

buildFreshContext(editor, ws) ==
    [currentFile |-> [uri |-> editor.uri, content |-> editor.text,
                      isOpen |-> TRUE, relevanceScore |-> 10],
     relatedFiles |-> findRelatedFiles(ws),
     imports |-> extractImports(ws),
     projectType |-> "node",
     workspaceName |-> "ws"]

\* a hit test that looks at the key only
MemoHitIgnoringContent(m, editor) ==
    editor.uri \in DOMAIN m

\* cached.currentFile?.content === editor.document.getText()
MemoHit(m, editor) ==
    /\ editor.uri \in DOMAIN m
    /\ m[editor.uri].currentFile.content = editor.text

\* the call itself: what it returns and what it leaves in the memo
ContextCall(editor) ==
       IF editor = NoEditor
       THEN /\ ret' = Ret("buildWorkspaceContext", "", editor, Undefined,
                          getEmptyContext)
            /\ UNCHANGED memo
       ELSE IF MemoHit(memo, editor)
       THEN /\ ret' = Ret("buildWorkspaceContext", "", editor, Undefined,
                          memo[editor.uri])
            /\ UNCHANGED memo
       ELSE LET context == buildFreshContext(editor, input)
            IN  /\ memo' = [u \in DOMAIN memo \cup {editor.uri} |->
                               IF u = editor.uri THEN context ELSE memo[u]]
                /\ ret' = Ret("buildWorkspaceContext", "", editor, Undefined,
                              context)

buildWorkspaceContext(editor) ==
    /\ ContextCall(editor)
    /\ UNCHANGED <<now, completionCache, contextCache, dropped, input,
                   isProcessing, debounceTimer, requests>>

\* the open tabs change under a memo that is kept
workspaceChangesUnderMemo ==
    /\ input' = [input EXCEPT !.open = Files \ @]
    /\ ret' = Ret("clearCache", "", NoEditor, Undefined, Void)
    /\ UNCHANGED <<now, completionCache, contextCache, dropped, memo,
                   isProcessing, debounceTimer, requests>>

clearCache ==
    /\ memo' = NoMemo
    /\ ret' = Ret("clearCache", "", NoEditor, Undefined, Void)
    /\ UNCHANGED <<now, completionCache, contextCache, dropped, input,
                   isProcessing, debounceTimer, requests>>

\* as Init, with the workspace drawn from Workspaces
InitContext ==
    /\ now = 0
    /\ completionCache = <<>>
    /\ contextCache = <<>>
    /\ ret = Ret("init", "", NoEditor, Undefined, Void)
    /\ dropped = {}
    /\ input \in Workspaces
    /\ isProcessing = FALSE
    /\ debounceTimer = 0
    /\ requests = <<>>
    /\ memo = NoMemo

NextContext ==
    \/ \E e \in Editors : buildWorkspaceContext(e)
    \/ clearCache

SpecContext == InitContext /\ [][NextContext]_vars

(***************************************************************************)
(* AiCompletionProvider and getAiCompletion.  A request is one call of     *)
(* provideInlineCompletionItems; its pc is                                 *)
(*   "refused"    the call returned undefined at once,                     *)
(*   "scheduled"  its debounce timer is armed,                             *)
(*   "cleared"    a later call cleared its timer (its promise stays open), *)
(*   "context"    timer fired, awaiting buildWorkspaceContext,             *)
(*   "enhance"    cache missed, awaiting the context of getAiCompletion,   *)
(*   "backend"    axios.post issued, awaiting the response,                *)
(*   "resolved"   resolve(...) was called.                                 *)
(* Each action is one run of the event loop between two awaits on I/O.     *)
(***************************************************************************)
MaxRequests == 3      \* calls of provideInlineCompletionItems per behaviour

\* config.get<AIProvider>('provider', 'openai')
Provider == "openai"

\* (document, position) pairs the editor asks completions for
TriggerInputs == {<<"a", "1">>, <<"b", "2">>}

\* providerConfig.parseResponse(response.data): nothing, code, fenced code,
\* or explanation only
BackendResults == {"", "code", "fenced code", "prose"}
BackendOutcomes ==
    {[ok |-> FALSE, result |-> ""]} \cup
    {[ok |-> TRUE, result |-> r] : r \in BackendResults}

\* the prompt is a text built from the document around the position
buildCompletionPrompt(doc, pos) == <<doc, pos>>

\* strips the markdown fence and keeps the lines that look like code
postProcessCompletion(completion) ==
    CASE completion = "code" -> "code"
      [] completion = "fenced code" -> "code"
      [] OTHER -> ""

\* if (cached), if (result), if (completion): null and the empty string
\* are falsy
Truthy(s) == s # Null /\ s # ""

Pending == [kind |-> "pending"]
NoSuggestion == [kind |-> "undefined"]
Items(completion, pos) ==
    [kind |-> "items", insertText |-> completion, position |-> pos]

Request(doc, pos, qualifies, pc, value) ==
    [doc |-> doc, pos |-> pos, qualifies |-> qualifies, token |-> FALSE,
     pc |-> pc, prompt |-> <<>>, posted |-> FALSE, value |-> value]

\* a guard that forgets the isProcessing flag
RefusedOnlyUnqualified(processing, qualifies) == ~qualifies

\* if (this.isProcessing) return undefined;
\* if (!this.shouldTriggerCompletion(document, position)) return undefined;
Refused(processing, qualifies) == processing \/ ~qualifies

\* a debounce that leaves the previous timer armed
keepTimeout(reqs, timer) == reqs

\* if (this.debounceTimer) clearTimeout(this.debounceTimer): clearing a
\* timer that already fired does nothing
clearTimeout(reqs, timer) ==
    IF timer # 0 /\ reqs[timer].pc = "scheduled"
    THEN [reqs EXCEPT ![timer].pc = "cleared"]
    ELSE reqs

\* a final test that forgets the token
ResolutionIgnoringToken(completion, cancelled, pos) ==
    IF Truthy(completion) THEN Items(completion, pos) ELSE NoSuggestion

\* if (completion && !token.isCancellationRequested) resolve([...])
\* else resolve(undefined)
Resolution(completion, cancelled, pos) ==
    IF Truthy(completion) /\ ~cancelled
    THEN Items(completion, pos)
    ELSE NoSuggestion

\* a callback that leaves the flag as it finds it
FinallyKeepsFlag(flag) == flag

\* finally { this.isProcessing = false }, whatever the flag was
Finally(flag) == FALSE

\* the end of the timer callback: resolve, then finally isProcessing = false
Settle(reqs, i, completion) ==
    [reqs EXCEPT ![i].pc = "resolved",
                 ![i].value = Resolution(completion, reqs[i].token,
                                         reqs[i].pos)]

provideInlineCompletionItems(doc, pos, qualifies) ==
    /\ Len(requests) < MaxRequests
    /\ IF Refused(isProcessing, qualifies)
       THEN /\ requests' = Append(requests,
                   Request(doc, pos, qualifies, "refused", NoSuggestion))
            /\ UNCHANGED debounceTimer
       ELSE /\ requests' = Append(clearTimeout(requests, debounceTimer),
                   Request(doc, pos, qualifies, "scheduled", Pending))
            /\ debounceTimer' = Len(requests) + 1
    /\ UNCHANGED <<now, completionCache, contextCache, ret, dropped, input, memo,
                   isProcessing>>

\* the debounce timer fires: isProcessing = true, then the first token test
TimerFires(i) ==
    /\ requests[i].pc = "scheduled"
    /\ IF requests[i].token
       THEN /\ requests' = [requests EXCEPT ![i].pc = "resolved",
                                            ![i].value = NoSuggestion]
            /\ isProcessing' = Finally(TRUE)
       ELSE /\ requests' = [requests EXCEPT ![i].pc = "context"]
            /\ isProcessing' = TRUE
    /\ UNCHANGED <<now, completionCache, contextCache, ret, dropped, input, memo,
                   debounceTimer>>

\* buildWorkspaceContext settles.  Rejected: generateCompletion returns the empty string.
\* Fulfilled: the prompt is built and getAiCompletion runs up to its first
\* await, through the cache check.
ContextBuilt(i, ok) ==
    /\ requests[i].pc = "context"
    /\ IF ~ok
       THEN /\ requests' = Settle(requests, i, "")
            /\ isProcessing' = Finally(TRUE)
            /\ UNCHANGED completionCache
       ELSE LET prompt == buildCompletionPrompt(requests[i].doc,
                                                requests[i].pos)
                r == ProviderLookup(completionCache, Provider, prompt, now)
                built == [requests EXCEPT ![i].prompt = prompt]
            IN  /\ completionCache' = r.cache
                /\ IF Truthy(r.value)
                   THEN /\ requests' = Settle(built, i,
                                          postProcessCompletion(r.value))
                        /\ isProcessing' = Finally(TRUE)
                   ELSE /\ requests' = [built EXCEPT ![i].pc = "enhance"]
                        /\ UNCHANGED isProcessing
    /\ UNCHANGED <<now, contextCache, ret, dropped, input, memo, debounceTimer>>

\* the context of getAiCompletion settles (a failure keeps the original
\* prompt) and the request is posted to the backend
Enhanced(i) ==
    /\ requests[i].pc = "enhance"
    /\ requests' = [requests EXCEPT ![i].pc = "backend", ![i].posted = TRUE]
    /\ UNCHANGED <<now, completionCache, contextCache, ret, dropped, input, memo,
                   isProcessing, debounceTimer>>

\* a store that takes whatever the call produced
ShouldCacheAlways(ok, result) == TRUE

\* the try block reached the store (no throw) and
\* if (options.useCache !== false && result)
ShouldCache(ok, result) == ok /\ Truthy(result)

\* axios.post settles: a truthy result is stored, an error yields the empty string
BackendDone(i, outcome) ==
    /\ requests[i].pc = "backend"
    /\ completionCache' =
           IF ShouldCache(outcome.ok, outcome.result)
           THEN ProviderStore(completionCache, Provider, requests[i].prompt,
                              outcome.result, now)
           ELSE completionCache
    /\ requests' = Settle(requests, i, postProcessCompletion(outcome.result))
    /\ isProcessing' = Finally(TRUE)
    /\ UNCHANGED <<now, contextCache, ret, dropped, input, memo, debounceTimer>>

\* the editor cancels the token of a request that has not resolved
Cancel(i) ==
    /\ requests[i].pc \in {"scheduled", "context", "enhance", "backend"}
    /\ ~requests[i].token
    /\ requests' = [requests EXCEPT ![i].token = TRUE]
    /\ UNCHANGED <<now, completionCache, contextCache, ret, dropped, input, memo,
                   isProcessing, debounceTimer>>

NextProvider ==
    \/ \E t \in TriggerInputs, q \in BOOLEAN :
           provideInlineCompletionItems(t[1], t[2], q)
    \/ \E i \in 1..Len(requests) : TimerFires(i)
    \/ \E i \in 1..Len(requests), ok \in BOOLEAN : ContextBuilt(i, ok)
    \/ \E i \in 1..Len(requests) : Enhanced(i)
    \/ \E i \in 1..Len(requests), o \in BackendOutcomes : BackendDone(i, o)
    \/ \E i \in 1..Len(requests) : Cancel(i)

SpecProvider == Init /\ [][NextProvider]_vars

\* an awaited operation of the in-flight request settles: the context
\* builders read files, axios.post carries a timeout
InFlightStep ==
    \E i \in 1..Len(requests) :
        \/ \E ok \in BOOLEAN : ContextBuilt(i, ok)
        \/ Enhanced(i)
        \/ \E o \in BackendOutcomes : BackendDone(i, o)

\* SpecProvider in which every awaited operation eventually settles
SpecProviderLive == SpecProvider /\ WF_vars(InFlightStep)

\* the provider was disposed: the editor calls it no more
Disposed == ret.op = "dispose"

\* dispose(): clearTimeout(this.debounceTimer) and contextService.clearCache().
\* Callbacks already running go on.
dispose ==
    /\ ~Disposed
    /\ requests' = clearTimeout(requests, debounceTimer)
    /\ memo' = NoMemo
    /\ ret' = [ret EXCEPT !.op = "dispose"]
    /\ UNCHANGED <<now, completionCache, contextCache, dropped, input,
                   isProcessing, debounceTimer>>

NextDispose ==
    \/ /\ ~Disposed
       /\ \E t \in TriggerInputs, q \in BOOLEAN :
              provideInlineCompletionItems(t[1], t[2], q)
    \/ \E i \in 1..Len(requests) : TimerFires(i)
    \/ \E i \in 1..Len(requests), ok \in BOOLEAN : ContextBuilt(i, ok)
    \/ \E i \in 1..Len(requests) : Enhanced(i)
    \/ \E i \in 1..Len(requests), o \in BackendOutcomes : BackendDone(i, o)
    \/ \E i \in 1..Len(requests) : Cancel(i)
    \/ dispose

SpecDispose == Init /\ [][NextDispose]_vars

\* setTimeout: a timer that is not cleared fires
TimerStep == \E i \in 1..Len(requests) : TimerFires(i)

\* SpecDispose in which timers fire and awaited operations settle
SpecDisposeLive ==
    SpecDispose /\ WF_vars(TimerStep) /\ WF_vars(InFlightStep)

(***************************************************************************)
(* SpecActive: the provider together with the editor window.  input is the *)
(* workspace with one more field, active: vscode.window.activeTextEditor.  *)
(* The editor asks for completions on the document of the active editor;   *)
(* between the call and the timer the user may type or move to another tab. *)
(***************************************************************************)
MaxActiveRequests == 2   \* calls of provideInlineCompletionItems (SpecActive)
ActiveEditors ==
    {NoEditor, Editor("a", "t1"), Editor("a", "t2"), Editor("b", "t1")}

WindowWith(e) ==
    [open |-> {"f"}, dir |-> {}, imported |-> {}, similar |-> {},
     unreadable |-> {}, failing |-> {}, active |-> e]

InitActive ==
    /\ now = 0
    /\ completionCache = <<>>
    /\ contextCache = <<>>
    /\ ret = Ret("init", "", NoEditor, Undefined, Void)
    /\ dropped = {}
    /\ input \in {WindowWith(e) : e \in ActiveEditors \ {NoEditor}}
    /\ isProcessing = FALSE
    /\ debounceTimer = 0
    /\ requests = <<>>
    /\ memo = NoMemo

\* the user types in the active editor, moves to another tab or closes the
\* last one
activeEditorChanges(e) ==
    /\ e # input.active
    /\ input' = [input EXCEPT !.active = e]
    /\ UNCHANGED <<now, completionCache, contextCache, ret, dropped, memo,
                   isProcessing, debounceTimer, requests>>

\* the editor asks for a completion at a position of the active document
provideOnActive(pos, qualifies) ==
    /\ Len(requests) < MaxActiveRequests
    /\ input.active # NoEditor
    /\ provideInlineCompletionItems(input.active.uri, pos, qualifies)

\* the debounce timer fires: isProcessing = true, the token test, and
\* generateCompletion calls buildWorkspaceContext(), which reads
\* vscode.window.activeTextEditor before its first await.  The context is
\* recorded in ret when the editor is read; ContextBuilt is its arrival.
TimerFiresOnActive(i) ==
    /\ requests[i].pc = "scheduled"
    /\ IF requests[i].token
       THEN /\ requests' = [requests EXCEPT ![i].pc = "resolved",
                                            ![i].value = NoSuggestion]
            /\ isProcessing' = Finally(TRUE)
            /\ UNCHANGED <<ret, memo>>
       ELSE /\ requests' = [requests EXCEPT ![i].pc = "context"]
            /\ isProcessing' = TRUE
            /\ ContextCall(input.active)
    /\ UNCHANGED <<now, completionCache, contextCache, dropped, input,
                   debounceTimer>>

NextActive ==
    \/ \E pos \in {"1"}, q \in BOOLEAN : provideOnActive(pos, q)
    \/ \E e \in ActiveEditors : activeEditorChanges(e)
    \/ \E i \in 1..Len(requests) : TimerFiresOnActive(i)
    \/ \E i \in 1..Len(requests), ok \in BOOLEAN : ContextBuilt(i, ok)
    \/ \E i \in 1..Len(requests) : Enhanced(i)
    \/ \E i \in 1..Len(requests), o \in BackendOutcomes : BackendDone(i, o)
    \/ \E i \in 1..Len(requests) : Cancel(i)

SpecActive == InitActive /\ [][NextActive]_vars

(***************************************************************************)
(* SearchService (search-service.ts).  A line of a file is a sequence of   *)
(* tokens (words, punctuation, runs of blanks); a regular expression is a  *)
(* sequence of elements, each matching tokens.  Scores are in tenths.      *)
(* The options wholeWord, fileTypes and excludePatterns are left unset.    *)
(***************************************************************************)
MaxFolders == 2
MaxMatches == 10      \* a loop of findMatches that has pushed this many
                      \* matches is cut off (no line of the model has more
                      \* than 8 tokens, so no more than 9 matches)
MaxSearchArg == 2
defaultMaxResults == 50
defaultContextLines == 2
definitionMaxResults == 50
definitionContextLines == 3
todoMaxResults == 100
todoContextLines == 1

\* F of the value of v, with v evaluated once however often F uses it
With(v, F(_)) == CHOOSE y \in {F(x) : x \in {v}} : TRUE

Blank1 == " "
Blank8 == "        "
IsBlank(t) == t \in {Blank1, Blank8}

\* String.prototype.length of a token
TokenLength(t) ==
    CASE t = Blank8 -> 8
      [] t = "function" -> 8
      [] t = "export" -> 6
      [] t = "const" -> 5
      [] t \in {"TODO", "NOTE"} -> 4
      [] t \in {"foo", "bar", "let"} -> 3
      [] t \in {"//", "ts"} -> 2
      [] OTHER -> 1

RECURSIVE TextLength(_)
TextLength(s) ==
    IF s = <<>> THEN 0 ELSE TokenLength(Head(s)) + TextLength(Tail(s))

\* String.prototype.toLowerCase, token by token
LowerToken(t) ==
    CASE t = "TODO" -> "todo"
      [] t = "NOTE" -> "note"
      [] OTHER -> t

LowerText(s) == [i \in 1..Len(s) |-> LowerToken(s[i])]

\* lines of source text
LineExport ==
    <<"export", Blank1, "function", Blank1, "foo", Blank8, "(">>
LineConst == <<"const", Blank1, "foo", Blank1, "=", Blank1, "1">>
LineTodo == <<"//", Blank1, "TODO", ":", Blank1, "NOTE", Blank1, "x">>
LineLet == <<"let", Blank1, "bar">>

\* elements of a regular expression
Lit(words) == [k |-> "lit", w |-> words]
Opt(words) == [k |-> "opt", w |-> words]
Blanks1 == [k |-> "s+", w |-> {}]
Blanks0 == [k |-> "s*", w |-> {}]
Rest == [k |-> ".+", w |-> {}]

\* a literal against a token, under the flag i unless caseSensitive
TokenIn(t, words, caseSensitive) ==
    IF caseSensitive THEN t \in words
    ELSE LowerToken(t) \in {LowerToken(x) : x \in words}

\* RegExp.prototype.exec anchored at token i: the index after the match of
\* the elements k.. of re, or 0 when they do not match there.  Quantified
\* elements are greedy and give back on failure; .+ runs to the end of the
\* line and is the last element of the expressions that use it.
RECURSIVE MatchFrom(_, _, _, _, _)
MatchFrom(re, k, line, i, caseSensitive) ==
    IF k > Len(re) THEN i
    ELSE LET e == re[k]
             here == i <= Len(line)
             taken == MatchFrom(re, k + 1, line, i + 1, caseSensitive)
             skipped == MatchFrom(re, k + 1, line, i, caseSensitive)
         IN  CASE e.k = "lit" ->
                    IF here /\ TokenIn(line[i], e.w, caseSensitive)
                    THEN taken ELSE 0
               [] e.k = "opt" ->
                    IF here /\ TokenIn(line[i], e.w, caseSensitive)
                            /\ taken # 0
                    THEN taken ELSE skipped
               [] e.k = "s+" ->
                    IF here /\ IsBlank(line[i]) THEN taken ELSE 0
               [] e.k = "s*" ->
                    IF here /\ IsBlank(line[i]) /\ taken # 0
                    THEN taken ELSE skipped
               [] e.k = ".+" ->
                    IF here THEN Len(line) + 1 ELSE 0

\* a slip that leaves lastIndex where exec put it
lastIndexOfExec(index, end) == end

\* regex.lastIndex after an iteration of the loop of findMatches: exec left
\* it at the end of the match, and if (match.index === regex.lastIndex)
\* regex.lastIndex++
nextLastIndex(index, end) == IF end = index THEN end + 1 ELSE end

\* the while loop of findMatches from token i on: leftmost matches, each
\* search resuming at lastIndex; an expression that matches the empty
\* string also matches at the end of the line
RECURSIVE MatchesFrom(_, _, _, _)
MatchesFrom(line, re, i, caseSensitive) ==
    IF i > Len(line) + 1 THEN <<>>
    ELSE LET end == MatchFrom(re, 1, line, i, caseSensitive)
         IN  IF end = 0
             THEN MatchesFrom(line, re, i + 1, caseSensitive)
             ELSE << [text |-> SubSeq(line, i, end - 1), index |-> i] >>
                  \o MatchesFrom(line, re, nextLastIndex(i, end),
                                 caseSensitive)

findMatches(line, regex, options) ==
    MatchesFrom(line, regex, 1, options.caseSensitive.n = 1)

\* an optional boolean option
Bool(b) == [kind |-> "boolean", n |-> IF b THEN 1 ELSE 0]

\* a ?? b
Nullish(a, b) == IF a.kind = "undefined" THEN b ELSE a

\* a || b for a number a
OrNumber(a, b) == IF Falsy(a) THEN b ELSE a.n

SearchOptions(includeComments, useRegex, maxResults, contextLines) ==
    [includeComments |-> includeComments, includeStrings |-> Undefined,
     caseSensitive |-> Undefined, useRegex |-> useRegex,
     maxResults |-> maxResults, contextLines |-> contextLines]

normalizeSearchOptions(options) ==
    [includeComments |-> Nullish(options.includeComments, Bool(TRUE)),
     includeStrings |-> Nullish(options.includeStrings, Bool(TRUE)),
     caseSensitive |-> Nullish(options.caseSensitive, Bool(FALSE)),
     useRegex |-> Nullish(options.useRegex, Bool(FALSE)),
     maxResults |-> Nullish(options.maxResults, Num(defaultMaxResults)),
     contextLines |-> Nullish(options.contextLines,
                              Num(defaultContextLines))]

\* a query string: its text, and what new RegExp(text) makes of it
Query(src, compiles, re) == [src |-> src, compiles |-> compiles, re |-> re]
QueryFoo == Query(<<"foo">>, TRUE, <<Lit({"foo"})>>)
QueryOpenGroup == Query(<<"foo", "(">>, FALSE, <<>>)

\* query.replace(/[.*+?^${}()|[\]\\]/g, '\\$&'): every token stands for
\* itself
EscapedLiteral(src) == [i \in 1..Len(src) |-> Lit({src[i]})]

\* the RegExp, or the SyntaxError of new RegExp
buildSearchRegex(query, options) ==
    IF options.useRegex.n = 0
    THEN [threw |-> FALSE, regex |-> EscapedLiteral(query.src)]
    ELSE [threw |-> ~query.compiles, regex |-> query.re]

RECURSIVE TrimBlanks(_)
TrimBlanks(line) ==
    IF line # <<>> /\ IsBlank(Head(line)) THEN TrimBlanks(Tail(line))
    ELSE line

Count(s, tokens) == Cardinality({i \in 1..Len(s) : s[i] \in tokens})

shouldIncludeMatch(line, matchIndex, options) ==
    LET trimmedLine == TrimBlanks(line)
        beforeMatch == SubSeq(line, 1, matchIndex - 1)
        comment == \/ startsWith(trimmedLine, <<"//">>)
                   \/ startsWith(trimmedLine, <<"#">>)
                   \/ startsWith(trimmedLine, <<"/*">>)
                   \/ includes(line, <<"*/">>)
        inString == \/ Count(beforeMatch, {"'"}) % 2 = 1
                    \/ Count(beforeMatch, {"\""}) % 2 = 1
    IN  /\ options.includeComments.n = 0 => ~comment
        /\ options.includeStrings.n = 0 => ~inString

\* currentLine counts from 0
getContextLines(lines, currentLine, contextSize, direction) ==
    IF direction = "before"
    THEN LET start == IF currentLine - contextSize > 0
                      THEN currentLine - contextSize ELSE 0
         IN  SubSeq(lines, start + 1, currentLine)
    ELSE LET end == IF Len(lines) < currentLine + contextSize + 1
                    THEN Len(lines) ELSE currentLine + contextSize + 1
         IN  SubSeq(lines, currentLine + 2, end)

contextKeywords ==
    {"function", "class", "interface", "export", "import", "const", "let",
     "var"}

\* in tenths: 10 for an exact match, 5 for the file name, 2 per keyword,
\* and 10 - length / 10
calculateRelevanceScore(matchText, query, fileName, line) ==
    LET exact == IF LowerText(matchText) = LowerText(query.src)
                 THEN 100 ELSE 0
        name == IF includes(LowerText(fileName), LowerText(query.src))
                THEN 50 ELSE 0
        keywords == 20 * Cardinality({w \in contextKeywords :
                                         includes(LowerText(line), <<w>>)})
        length == IF TextLength(matchText) < 100
                  THEN 100 - TextLength(matchText) ELSE 0
    IN  exact + name + keywords + length

\* the results of line i (from 1) of the file
LineResults(file, i, regex, query, options) ==
    LET line == file.lines[i]
        matches == findMatches(line, regex, options)
        kept == SelectSeq(matches,
                    LAMBDA mt : shouldIncludeMatch(line, mt.index, options))
        size == OrNumber(options.contextLines, 1)
    IN  [n \in 1..Len(kept) |->
            [uri |-> file.uri,
             fileName |-> file.fileName,
             relativePath |-> file.relativePath,
             lineNumber |-> i,
             lineText |-> line,
             matchText |-> kept[n].text,
             contextBefore |-> getContextLines(file.lines, i - 1, size,
                                               "before"),
             contextAfter |-> getContextLines(file.lines, i - 1, size,
                                              "after"),
             relevanceScore |-> calculateRelevanceScore(
                 kept[n].text, query, file.fileName, line)]]

RECURSIVE FileResults(_, _, _, _, _)
FileResults(file, i, regex, query, options) ==
    IF i > Len(file.lines) THEN <<>>
    ELSE LineResults(file, i, regex, query, options)
         \o FileResults(file, i + 1, regex, query, options)

\* what a call returns, or that it threw
Returned(results) == [threw |-> FALSE, results |-> results]
Thrown == [threw |-> TRUE, results |-> <<>>]

\* openTextDocument rejects for a file that cannot be read
searchFile(file, query, options) ==
    IF ~file.readable THEN Thrown
    ELSE LET built == buildSearchRegex(query, options)
         IN  IF built.threw THEN Thrown
             ELSE Returned(FileResults(file, 1, built.regex, query,
                                       options))

\* the loop over the files of a folder, with its try and catch
RECURSIVE FolderResults(_, _, _)
FolderResults(files, query, options) ==
    IF files = <<>> THEN <<>>
    ELSE With(searchFile(Head(files), query, options),
              LAMBDA r : IF r.threw THEN <<>> ELSE r.results)
         \o FolderResults(Tail(files), query, options)

\* a searchFolder without its try and catch
searchFolderNoCatch(folder, query, options) ==
    IF \/ ~folder.ok
       \/ \E i \in 1..Len(folder.files) :
              searchFile(folder.files[i], query, options).threw
    THEN Thrown
    ELSE Returned(FolderResults(folder.files, query, options))

\* a searchFolder that gives up on the folder at the first failure
searchFolderAllOrNothing(folder, query, options) ==
    IF \/ ~folder.ok
       \/ \E i \in 1..Len(folder.files) :
              searchFile(folder.files[i], query, options).threw
    THEN Returned(<<>>)
    ELSE Returned(FolderResults(folder.files, query, options))

\* findFiles rejects for a folder that cannot be enumerated
searchFolder(folder, query, options) ==
    IF ~folder.ok THEN Returned(<<>>)
    ELSE Returned(FolderResults(folder.files, query, options))

\* the loop over the workspace folders; an exception of searchFolder would
\* leave it
RECURSIVE WorkspaceResults(_, _, _)
\* the results of two calls in a row: none when either threw
Both(r, rest) ==
    IF r.threw \/ rest.threw THEN Thrown
    ELSE Returned(r.results \o rest.results)

WorkspaceResults(folders, query, options) ==
    IF folders = <<>> THEN Returned(<<>>)
    ELSE With(<<searchFolder(Head(folders), query, options),
                WorkspaceResults(Tail(folders), query, options)>>,
              LAMBDA p : Both(p[1], p[2]))

unsorted(results) == results

\* .sort((a, b) => b.relevanceScore - a.relevanceScore)
sortByScore(results) == sortByRelevance(results)

searchWorkspace(ws, query, options) ==
    IF Len(ws.folders) = 0 THEN Returned(<<>>)
    ELSE With(normalizeSearchOptions(options), LAMBDA searchOptions :
         With(WorkspaceResults(ws.folders, query, searchOptions),
              LAMBDA all :
                  IF all.threw THEN Thrown
                  ELSE With(sortByScore(all.results), LAMBDA sorted :
                       Returned(slice(sorted,
                                      searchOptions.maxResults.n)))))

\* const key = uri:lineNumber; the first result of each key is kept
deduplicateResults(results) ==
    LET first(i) == \A j \in 1..(i - 1) :
                        \/ results[j].uri # results[i].uri
                        \/ results[j].lineNumber # results[i].lineNumber
        kept == {i \in 1..Len(results) : first(i)}
        nth(n) == CHOOSE i \in kept :
                     Cardinality({j \in kept : j < i}) = n - 1
    IN  [n \in 1..Cardinality(kept) |-> results[nth(n)]]

\* the loop of searchDefinitions and of searchTodos over their patterns
RECURSIVE PatternResults(_, _, _)
PatternResults(ws, patterns, options) ==
    IF patterns = <<>> THEN Returned(<<>>)
    ELSE With(<<searchWorkspace(ws, Head(patterns), options),
                PatternResults(ws, Tail(patterns), options)>>,
              LAMBDA p : Both(p[1], p[2]))

\* the patterns for an identifier, which is one token and has nothing to
\* escape
getDefinitionPatterns(identifier, language) ==
    (IF language \in {"typescript", "javascript"}
     THEN << Query(<<"function\\s+", identifier, "\\s*\\(">>, TRUE,
                   <<Lit({"function"}), Blanks1, Lit({identifier}), Blanks0,
                     Lit({"("})>>),
             Query(<<"const\\s+", identifier, "\\s*=">>, TRUE,
                   <<Lit({"const"}), Blanks1, Lit({identifier}), Blanks0,
                     Lit({"="})>>),
             Query(<<"let\\s+", identifier, "\\s*=">>, TRUE,
                   <<Lit({"let"}), Blanks1, Lit({identifier}), Blanks0,
                     Lit({"="})>>),
             Query(<<"class\\s+", identifier, "\\s*{">>, TRUE,
                   <<Lit({"class"}), Blanks1, Lit({identifier}), Blanks0,
                     Lit({"{"})>>),
             Query(<<"interface\\s+", identifier, "\\s*{">>, TRUE,
                   <<Lit({"interface"}), Blanks1, Lit({identifier}), Blanks0,
                     Lit({"{"})>>),
             Query(<<"type\\s+", identifier, "\\s*=">>, TRUE,
                   <<Lit({"type"}), Blanks1, Lit({identifier}), Blanks0,
                     Lit({"="})>>),
             Query(<<"export\\s+(?:const|let|function|class|interface|type)\\s+",
                     identifier>>, TRUE,
                   <<Lit({"export"}), Blanks1,
                     Lit({"const", "let", "function", "class", "interface",
                          "type"}),
                     Blanks1, Lit({identifier})>>) >>
     ELSE <<>>)
    \o
    (IF language = "python"
     THEN << Query(<<"def\\s+", identifier, "\\s*\\(">>, TRUE,
                   <<Lit({"def"}), Blanks1, Lit({identifier}), Blanks0,
                     Lit({"("})>>),
             Query(<<"class\\s+", identifier, "\\s*[\\(:]">>, TRUE,
                   <<Lit({"class"}), Blanks1, Lit({identifier}), Blanks0,
                     Lit({"(", ":"})>>),
             Query(<<identifier, "\\s*=\\s*lambda">>, TRUE,
                   <<Lit({identifier}), Blanks0, Lit({"="}), Blanks0,
                     Lit({"lambda"})>>) >>
     ELSE <<>>)

definitionOptions ==
    [includeComments |-> Undefined, includeStrings |-> Undefined,
     caseSensitive |-> Bool(FALSE), useRegex |-> Bool(TRUE),
     maxResults |-> Num(definitionMaxResults),
     contextLines |-> Num(definitionContextLines)]

searchDefinitions(ws, identifier, language) ==
    With(PatternResults(ws, getDefinitionPatterns(identifier, language),
                        definitionOptions),
         LAMBDA r :
             IF r.threw THEN Thrown
             ELSE Returned(deduplicateResults(r.results)))

TodoPattern(word) ==
    Query(<<word, ":?\\s*(.+)">>, TRUE,
          <<Lit({word}), Opt({":"}), Blanks0, Rest>>)

todoPatterns ==
    << TodoPattern("TODO"), TodoPattern("FIXME"), TodoPattern("HACK"),
       TodoPattern("NOTE"), TodoPattern("BUG"), TodoPattern("REVIEW") >>

todoOptions ==
    [includeComments |-> Bool(TRUE), includeStrings |-> Undefined,
     caseSensitive |-> Undefined, useRegex |-> Bool(TRUE),
     maxResults |-> Num(todoMaxResults),
     contextLines |-> Num(todoContextLines)]

\* the place of a relative path in the order of localeCompare
PathRank(p) ==
    CASE p = "b.ts" -> 1
      [] p = "c.ts" -> 2
      [] OTHER -> 3

\* .sort((a, b) => a.relativePath.localeCompare(b.relativePath))
sortByPath(results) ==
    LET before(i, j) ==
            \/ PathRank(results[i].relativePath)
                   < PathRank(results[j].relativePath)
            \/ /\ PathRank(results[i].relativePath)
                      = PathRank(results[j].relativePath)
               /\ i < j
        rank(i) == Cardinality({j \in 1..Len(results) : before(j, i)}) + 1
    IN  [n \in 1..Len(results) |->
            results[CHOOSE i \in 1..Len(results) : rank(i) = n]]

searchTodos(ws) ==
    With(PatternResults(ws, todoPatterns, todoOptions), LAMBDA r :
         IF r.threw THEN Thrown ELSE Returned(sortByPath(r.results)))

\* the files of the workspaces
SearchFile(uri, fileName, relativePath, lines) ==
    [uri |-> uri, fileName |-> fileName, relativePath |-> relativePath,
     readable |-> TRUE, lines |-> lines]

SearchFiles ==
    << SearchFile("foo.ts", <<"foo", ".", "ts">>, "foo.ts",
                  <<LineLet, LineExport, LineConst>>),
       SearchFile("b.ts", <<"b", ".", "ts">>, "b.ts",
                  <<LineTodo, LineExport>>),
       SearchFile("c.ts", <<"c", ".", "ts">>, "c.ts",
                  <<LineConst, LineTodo, LineLet>>) >>

\* the files placed in folder d, in the order findFiles lists them
RECURSIVE FilesIn(_, _, _, _)
FilesIn(d, place, unreadable, f) ==
    IF f > Len(SearchFiles) THEN <<>>
    ELSE (IF place[f] = d
          THEN << [SearchFiles[f] EXCEPT !.readable = f \notin unreadable] >>
          ELSE <<>>)
         \o FilesIn(d, place, unreadable, f + 1)

SearchWorkspace(n, place, unreadable, failing) ==
    [folders |-> [d \in 1..n |->
                     [ok |-> d \notin failing,
                      files |-> FilesIn(d, place, unreadable, 1)]]]

\* workspaces of up to MaxFolders folders in which every file can be read
SearchWorkspaces ==
    {SearchWorkspace(n, place, {}, {}) :
        n \in 0..MaxFolders,
        place \in [1..Len(SearchFiles) -> 0..MaxFolders]}

\* the same with at most one file that cannot be read and at most one folder
\* that cannot be enumerated
FailingWorkspaces ==
    {SearchWorkspace(n, place, unreadable, failing) :
        n \in 0..MaxFolders,
        place \in [1..Len(SearchFiles) -> 0..MaxFolders],
        unreadable \in {{}} \cup {{f} : f \in 1..Len(SearchFiles)},
        failing \in {{}} \cup {{d} : d \in 1..MaxFolders}}

NumberArgs == {Undefined} \cup {Num(n) : n \in 0..MaxSearchArg}

QueryNote == Query(<<"NOTE">>, TRUE, <<Lit({"NOTE"})>>)

\* TODO|NOTE, which matches twice on a line that holds both words
QueryTodoOrNote ==
    Query(<<"TODO", "|", "NOTE">>, TRUE, <<Lit({"TODO", "NOTE"})>>)

\* the calls of searchWorkspace: a word under every cap and every context
\* size, an unbalanced parenthesis as text and as a regular expression, and
\* a word of a comment with and without comments
WorkspaceCalls ==
    {<<QueryFoo, SearchOptions(Undefined, Undefined, m, Undefined)>> :
        m \in NumberArgs}
    \cup {<<QueryFoo, SearchOptions(Undefined, Undefined, Undefined, c)>> :
        c \in NumberArgs}
    \cup {<<QueryOpenGroup,
            SearchOptions(Undefined, r, Undefined, Undefined)>> :
        r \in {Undefined, Bool(TRUE)}}
    \cup {<<QueryNote, SearchOptions(c, Undefined, Undefined, Undefined)>> :
        c \in {Undefined, Bool(FALSE)}}
    \cup {<<QueryTodoOrNote,
            SearchOptions(Undefined, Bool(TRUE), Undefined, Undefined)>>}

Identifiers == {"foo", "bar"}
Languages == {"typescript", "python"}

\* the arguments of a call
SearchCall(query, language, options) ==
    [query |-> query, language |-> language, options |-> options]

callSearchWorkspace(query, options) ==
    /\ ret' = Ret("searchWorkspace", "", SearchCall(query, "", options),
                  Undefined, searchWorkspace(input, query, options))
    /\ UNCHANGED <<now, completionCache, contextCache, dropped, input,
                   isProcessing, debounceTimer, requests, memo>>

callSearchDefinitions(identifier, language) ==
    /\ ret' = Ret("searchDefinitions", "",
                  SearchCall(Query(<<identifier>>, TRUE, <<>>), language,
                             definitionOptions),
                  Undefined, searchDefinitions(input, identifier, language))
    /\ UNCHANGED <<now, completionCache, contextCache, dropped, input,
                   isProcessing, debounceTimer, requests, memo>>

callSearchTodos ==
    /\ ret' = Ret("searchTodos", "",
                  SearchCall(Query(<<>>, TRUE, <<>>), "", todoOptions),
                  Undefined, searchTodos(input))
    /\ UNCHANGED <<now, completionCache, contextCache, dropped, input,
                   isProcessing, debounceTimer, requests, memo>>

\* as Init, with the workspace drawn from SearchWorkspaces
InitSearch ==
    /\ now = 0
    /\ completionCache = <<>>
    /\ contextCache = <<>>
    /\ ret = Ret("init", "", SearchCall(Query(<<>>, TRUE, <<>>), "",
                                        todoOptions),
                 Undefined, Returned(<<>>))
    /\ dropped = {}
    /\ input \in SearchWorkspaces
    /\ isProcessing = FALSE
    /\ debounceTimer = 0
    /\ requests = <<>>
    /\ memo = NoMemo

NextSearch ==
    \/ \E c \in WorkspaceCalls : callSearchWorkspace(c[1], c[2])
    \/ \E id \in Identifiers, l \in Languages : callSearchDefinitions(id, l)
    \/ callSearchTodos

SpecSearch == InitSearch /\ [][NextSearch]_vars

(***************************************************************************)
(* SpecSkip: searches and context builds over workspaces in which one file *)
(* cannot be read or one enumeration fails.                                *)
(***************************************************************************)
SkipFiles == {"f", "g"}

SkipWorkspaces ==
    {[folders |-> w.folders, open |-> {}, dir |-> {}, imported |-> {},
      similar |-> {}, unreadable |-> {}, failing |-> {}] :
        w \in FailingWorkspaces}
    \cup
    {[folders |-> <<>>, open |-> o, dir |-> d, imported |-> {},
      similar |-> s, unreadable |-> u, failing |-> x] :
        o \in SUBSET SkipFiles, d \in SUBSET SkipFiles,
        s \in SUBSET SkipFiles,
        u \in {{}} \cup {{f} : f \in SkipFiles},
        x \in SUBSET {"dir", "similar"}}

InitSkip ==
    /\ now = 0
    /\ completionCache = <<>>
    /\ contextCache = <<>>
    /\ ret = Ret("init", "", NoEditor, Undefined, Void)
    /\ dropped = {}
    /\ input \in SkipWorkspaces
    /\ isProcessing = FALSE
    /\ debounceTimer = 0
    /\ requests = <<>>
    /\ memo = NoMemo

NextSkip ==
    \/ callSearchWorkspace(QueryFoo, SearchOptions(Undefined, Undefined,
                                                   Undefined, Undefined))
    \/ callSearchDefinitions("foo", "typescript")
    \/ callSearchTodos
    \/ \E e \in Editors : buildWorkspaceContext(e)

SpecSkip == InitSkip /\ [][NextSkip]_vars

(***************************************************************************)
(* SpecScan: the while loop of findMatches, one regex.exec per step.       *)
(* input is the line and the expression; ret.value is the loop: the        *)
(* matches pushed so far, regex.lastIndex (from 1, as the tokens are) and  *)
(* whether the loop is still running.                                      *)
(***************************************************************************)
NoMatch == [index |-> 0, end |-> 0]

\* regex.exec(line) of a global expression: the leftmost match that starts
\* at lastIndex or after it, or null
exec(line, re, lastIndex, caseSensitive) ==
    LET starts == {i \in lastIndex..(Len(line) + 1) :
                      MatchFrom(re, 1, line, i, caseSensitive) # 0}
    IN  IF starts = {} THEN NoMatch
        ELSE LET index == CHOOSE i \in starts : \A j \in starts : i <= j
             IN  [index |-> index,
                  end |-> MatchFrom(re, 1, line, index, caseSensitive)]

Scan(matches, lastIndex, running) ==
    [matches |-> matches, lastIndex |-> lastIndex, running |-> running]

ScanLines == {<<>>, LineExport, LineConst, LineTodo, LineLet}
ScanRegexes ==
    {<<>>, <<Lit({"foo"})>>, <<Opt({"foo"})>>, <<Blanks0>>, <<Blanks1>>,
     <<Rest>>, <<Blanks0, Opt({"="})>>, <<Lit({"TODO", "NOTE"})>>,
     TodoPattern("TODO").re}
ScanInputs == [line : ScanLines, regex : ScanRegexes]

\* one evaluation of the loop condition, and the body when exec matched
execStep ==
    /\ ret.value.running
    /\ Len(ret.value.matches) < MaxMatches
    /\ LET found == exec(input.line, input.regex, ret.value.lastIndex, FALSE)
       IN  ret' = [ret EXCEPT !.value =
                      IF found = NoMatch
                      THEN Scan(ret.value.matches, 1, FALSE)
                      ELSE Scan(Append(ret.value.matches,
                                       [text |-> SubSeq(input.line,
                                                        found.index,
                                                        found.end - 1),
                                        index |-> found.index]),
                                nextLastIndex(found.index, found.end),
                                TRUE)]
    /\ UNCHANGED <<now, completionCache, contextCache, dropped, input,
                   isProcessing, debounceTimer, requests, memo>>

\* searchFile calls findMatches for the next line; regex.lastIndex = 0
callFindMatches ==
    /\ ~ret.value.running
    /\ input' \in ScanInputs
    /\ ret' = Ret("findMatches", "", <<>>, Undefined, Scan(<<>>, 1, TRUE))
    /\ UNCHANGED <<now, completionCache, contextCache, dropped,
                   isProcessing, debounceTimer, requests, memo>>

InitScan ==
    /\ now = 0
    /\ completionCache = <<>>
    /\ contextCache = <<>>
    /\ ret = Ret("findMatches", "", <<>>, Undefined, Scan(<<>>, 1, TRUE))
    /\ dropped = {}
    /\ input \in ScanInputs
    /\ isProcessing = FALSE
    /\ debounceTimer = 0
    /\ requests = <<>>
    /\ memo = NoMemo

NextScan == execStep \/ callFindMatches

SpecScan == InitScan /\ [][NextScan]_vars

\* the loop is synchronous code: once entered it runs on
SpecScanLive == SpecScan /\ WF_vars(execStep)

(***************************************************************************)
(* SpecRank: the two ranked lists, each under its cap: searches whose      *)
(* matches tie in score, and context builds whose related files tie.       *)
(***************************************************************************)
RankWorkspaces ==
    {[folders |-> w.folders, open |-> {}, dir |-> {}, imported |-> {},
      similar |-> {}, unreadable |-> {}, failing |-> {}] :
        w \in SearchWorkspaces}
    \cup
    {[folders |-> <<>>, open |-> o, dir |-> d, imported |-> {},
      similar |-> s, unreadable |-> {}, failing |-> {}] :
        o \in SUBSET Files, d \in SUBSET Files, s \in SUBSET Files}

\* a word that two files hold on the same line, and two words of one line,
\* with and without a cap that cuts between them
RankCalls ==
    {<<QueryNote, SearchOptions(Undefined, Undefined, m, Undefined)>> :
        m \in {Undefined, Num(1)}}
    \cup {<<QueryTodoOrNote,
            SearchOptions(Undefined, Bool(TRUE), m, Undefined)>> :
        m \in {Num(1), Num(3)}}

InitRank ==
    /\ now = 0
    /\ completionCache = <<>>
    /\ contextCache = <<>>
    /\ ret = Ret("init", "", NoEditor, Undefined, Void)
    /\ dropped = {}
    /\ input \in RankWorkspaces
    /\ isProcessing = FALSE
    /\ debounceTimer = 0
    /\ requests = <<>>
    /\ memo = NoMemo

NextRank ==
    \/ \E c \in RankCalls : callSearchWorkspace(c[1], c[2])
    \/ \E e \in Editors : buildWorkspaceContext(e)

SpecRank == InitRank /\ [][NextRank]_vars

(***************************************************************************)
(* shouldTriggerCompletion (completion-provider.ts): the text of the       *)
(* current line before and after the cursor, as tokens, against the        *)
(* trigger patterns.  The languages are typescript, python and one that    *)
(* has no patterns of its own; the texts hold no backtick.                 *)
(***************************************************************************)
Punctuation ==
    {"(", ")", "{", "}", "=", ";", ":", ".", ",", "//", "/*", "*/", "#",
     "\"", "'", "=>"}

\* a token of \w characters
IsWord(t) == ~IsBlank(t) /\ t \notin Punctuation

\* further elements of a regular expression
Words1 == [k |-> "w+", w |-> {}]
Words0 == [k |-> "w*", w |-> {}]
NotClose1 == [k |-> "[^)]+", w |-> {}]
NotClose0 == [k |-> "[^)]*", w |-> {}]
Any0 == [k |-> ".*", w |-> {}]
LitI(words) == [k |-> "liti", w |-> words]
OptGroup(re) == [k |-> "(?:)?", w |-> re]
End == [k |-> "$", w |-> {}]
Start == [k |-> "^", w |-> {}]

\* the tokens a repeated element may run over
InClass(k, t) ==
    CASE k \in {"s+", "s*"} -> IsBlank(t)
      [] k \in {"w+", "w*"} -> IsWord(t)
      [] k \in {"[^)]+", "[^)]*"} -> t # ")"
      [] OTHER -> TRUE

\* the positions from i that a run of the class of k can reach
Runs(k, text, i, least) ==
    {j \in (i + least)..(Len(text) + 1) :
        \A n \in i..(j - 1) : InClass(k, text[n])}

\* every position at which the elements k.. of re can end when they start
\* at token i of text
RECURSIVE Ends(_, _, _, _)
Ends(re, k, text, i) ==
    IF k > Len(re) THEN {i}
    ELSE LET e == re[k]
             here == i <= Len(text)
             after(js) == UNION {Ends(re, k + 1, text, j) : j \in js}
         IN  CASE e.k = "lit" ->
                    IF here /\ text[i] \in e.w THEN after({i + 1}) ELSE {}
               [] e.k = "liti" ->
                    IF here /\ TokenIn(text[i], e.w, FALSE)
                    THEN after({i + 1}) ELSE {}
               [] e.k = "opt" ->
                    after({i} \cup (IF here /\ text[i] \in e.w
                                    THEN {i + 1} ELSE {}))
               [] e.k \in {"s+", "w+", "[^)]+", ".+"} ->
                    after(Runs(e.k, text, i, 1))
               [] e.k \in {"s*", "w*", "[^)]*", ".*"} ->
                    after(Runs(e.k, text, i, 0))
               [] e.k = "(?:)?" ->
                    after({i} \cup Ends(e.w, 1, text, i))
               [] e.k = "$" ->
                    IF i = Len(text) + 1 THEN after({i}) ELSE {}
               [] e.k = "^" ->
                    IF i = 1 THEN after({i}) ELSE {}

\* RegExp.prototype.test
test(re, text) ==
    \E i \in 1..(Len(text) + 1) : Ends(re, 1, text, i) # {}

commonPatterns ==
    << <<Lit({"function"}), Blanks1, Words1, Blanks0, Lit({"("}), NotClose0,
         Lit({")"}), Blanks0, Lit({"{"}), Blanks0, End>>,
       <<Lit({"=>"}), Blanks0, Lit({"{"}), Blanks0, End>>,
       <<Lit({"if"}), Blanks0, Lit({"("}), NotClose1, Lit({")"}), Blanks0,
         Lit({"{"}), Blanks0, End>>,
       <<Lit({"else"}), Blanks0, Lit({"{"}), Blanks0, End>>,
       <<Lit({"for"}), Blanks0, Lit({"("}), NotClose1, Lit({")"}), Blanks0,
         Lit({"{"}), Blanks0, End>>,
       <<Lit({"while"}), Blanks0, Lit({"("}), NotClose1, Lit({")"}),
         Blanks0, Lit({"{"}), Blanks0, End>>,
       <<Lit({"try"}), Blanks0, Lit({"{"}), Blanks0, End>>,
       <<Lit({"catch"}), Blanks0, Lit({"("}), NotClose0, Lit({")"}),
         Blanks0, Lit({"{"}), Blanks0, End>>,
       <<Lit({"//"}), Blanks0, LitI({"TODO"}), Lit({":"})>>,
       <<Lit({"//"}), Blanks0, LitI({"FIXME"}), Lit({":"})>>,
       <<Lit({"//"}), Blanks0, Rest, End>>,
       <<Start, Blanks0, End>>,
       <<Lit({"."}), Blanks0, End>>,
       <<Words1, Lit({"("}), Blanks0, End>> >>

typescriptPatterns ==
    << <<Lit({"const"}), Blanks1, Words1, Lit({":"}), Blanks0, Words0,
         Blanks0, Lit({"="}), Blanks0, End>>,
       <<Lit({"interface"}), Blanks1, Words1, Blanks0, Lit({"{"}), Blanks0,
         End>>,
       <<Lit({"type"}), Blanks1, Words1, Blanks0, Lit({"="}), Blanks0, End>>,
       <<Lit({"class"}), Blanks1, Words1, Blanks0, Lit({"{"}), Blanks0,
         End>>,
       <<Lit({"private"}), Blanks1, Words1, Blanks0, Lit({":"}), Blanks0,
         End>>,
       <<Lit({"public"}), Blanks1, Words1, Blanks0, Lit({":"}), Blanks0,
         End>> >>

pythonPatterns ==
    << <<Lit({"def"}), Blanks1, Words1, Lit({"("}), NotClose0, Lit({")"}),
         Lit({":"}), Blanks0, End>>,
       <<Lit({"class"}), Blanks1, Words1,
         OptGroup(<<Lit({"("}), NotClose0, Lit({")"})>>), Lit({":"}),
         Blanks0, End>>,
       <<Lit({"if"}), Blanks1, Rest, Lit({":"}), Blanks0, End>>,
       <<Lit({"elif"}), Blanks1, Rest, Lit({":"}), Blanks0, End>>,
       <<Lit({"else"}), Lit({":"}), Blanks0, End>>,
       <<Lit({"for"}), Blanks1, Words1, Blanks1, Lit({"in"}), Blanks1, Rest,
         Lit({":"}), Blanks0, End>>,
       <<Lit({"while"}), Blanks1, Rest, Lit({":"}), Blanks0, End>>,
       <<Lit({"try"}), Lit({":"}), Blanks0, End>>,
       <<Lit({"except"}), Blanks0, Words0, Lit({":"}), Blanks0, End>>,
       <<Lit({"with"}), Blanks1, Rest, Lit({":"}), Blanks0, End>>,
       <<Lit({"#"}), Blanks0, LitI({"TODO"}), Lit({":"})>> >>

\* languageSpecificPatterns[languageId] || []
languageSpecificPatterns(languageId) ==
    CASE languageId = "typescript" -> typescriptPatterns
      [] languageId = "python" -> pythonPatterns
      [] OTHER -> <<>>

getTriggerPatterns(languageId) ==
    commonPatterns \o languageSpecificPatterns(languageId)

\* text.trim()
RECURSIVE TrimBlanksEnd(_)
TrimBlanksEnd(text) ==
    IF text # <<>> /\ IsBlank(text[Len(text)])
    THEN TrimBlanksEnd(SubSeq(text, 1, Len(text) - 1))
    ELSE text

trimBlanks(text) == TrimBlanksEnd(TrimBlanks(text))

isInStringOrComment(text, languageId) ==
    LET hasOpenString == \/ Count(text, {"\""}) % 2 = 1
                         \/ Count(text, {"'"}) % 2 = 1
        inComment == \/ startsWith(trimBlanks(text), <<"//">>)
                     \/ startsWith(trimBlanks(text), <<"#">>)
                     \/ /\ includes(text, <<"/*">>)
                        /\ ~includes(text, <<"*/">>)
    IN  hasOpenString \/ inComment

\* a gate that does not look behind the cursor
shouldTriggerIgnoringRest(at) ==
    /\ ~isInStringOrComment(at.before, at.languageId)
    /\ \E n \in 1..Len(getTriggerPatterns(at.languageId)) :
           test(getTriggerPatterns(at.languageId)[n], at.before)

\* at: the language of the document and the text of the line before and
\* after the cursor
shouldTriggerCompletion(at) ==
    IF Len(trimBlanks(at.after)) > 0 THEN FALSE
    ELSE IF isInStringOrComment(at.before, at.languageId) THEN FALSE
    ELSE \E n \in 1..Len(getTriggerPatterns(at.languageId)) :
             test(getTriggerPatterns(at.languageId)[n], at.before)

TextsBefore ==
    { <<>>,
      <<Blank8>>,
      <<"function", Blank1, "foo", "(", ")", Blank1, "{">>,
      <<"const", Blank1, "x", Blank1, "=", Blank1, "1", ";">>,
      <<"//", Blank1, "TODO", ":">>,
      <<"x", Blank1, "=", Blank1, "\"", "a", ".">>,
      <<"/*", Blank1, "x", ".">>,
      <<"class", Blank1, "Foo", Blank1, "{">>,
      <<"else", ":">>,
      <<"foo", "(">> }

TextsAfter == { <<>>, <<Blank1>>, <<";">> }

LanguageIds == {"typescript", "python", "plaintext"}

CursorPlaces ==
    [languageId : LanguageIds, before : TextsBefore, after : TextsAfter]

\* the user types or moves the cursor
editLine ==
    /\ input' \in CursorPlaces
    /\ UNCHANGED <<now, completionCache, contextCache, ret, dropped,
                   isProcessing, debounceTimer, requests, memo>>

\* as Init, with the cursor somewhere in a document
InitTrigger ==
    /\ now = 0
    /\ completionCache = <<>>
    /\ contextCache = <<>>
    /\ ret = Ret("init", "", <<>>, Undefined, Null)
    /\ dropped = {}
    /\ input \in CursorPlaces
    /\ isProcessing = FALSE
    /\ debounceTimer = 0
    /\ requests = <<>>
    /\ memo = NoMemo

\* the editor asks for completions where the cursor is
NextTrigger ==
    \/ editLine
    \/ provideInlineCompletionItems("a", "1", shouldTriggerCompletion(input))

SpecTrigger == InitTrigger /\ [][NextTrigger]_vars

(***************************************************************************)
(* Claims.                                                                 *)
(***************************************************************************)

\* C1 (SpecCompletion): while the entry stored by cacheProviderResponse(p, q, r)
\* is held and its expiry has not passed, getCachedProviderResponse(p, q)
\* returns exactly r.
C1_ProviderRoundTrip ==
    ret.op = "getCachedProviderResponse" =>
        LET k == ProviderKey(ret.provider, ret.arg)
        IN  (MapHas(completionCache, k) /\ now < MapGet(completionCache, k).expiry)
                => ret.value = MapGet(completionCache, k).data

\* C2 (SpecCompletion): after every mutating operation neither namespace
\* holds more than maxCacheSize entries.
C2_SizeBound ==
    /\ Len(completionCache) <= maxCacheSize
    /\ Len(contextCache) <= maxCacheSize

LastAccessedIn(cache, k) == MapGet(cache, k).lastAccessed

\* the entries of `held` (the map as the call found it, or what the sweep left
\* of it) and the key just set that are gone from `after` were accessed no later
\* than any entry still in `after`
VictimsAreOldest(held, setKey, after) ==
    \A e \in (MapKeys(held) \cup setKey) \ MapKeys(after), s \in MapKeys(after) :
        (IF e \in setKey THEN now ELSE LastAccessedIn(held, e))
            <= LastAccessedIn(after, s)

\* a key that was not held is held after it is set, and the namespace then
\* holds maxCacheSize entries if it was full and one more entry otherwise
NewKeyIsKept(before, key, after) ==
    ~MapHas(before, key) =>
        /\ MapHas(after, key)
        /\ Len(after) = IF Len(before) >= maxCacheSize THEN maxCacheSize
                        ELSE Len(before) + 1

\* C3 (SpecCompletion): whenever cacheCompletion, cacheContext or the cleanup
\* evicts for size, every evicted entry has a lastAccessed no later than that of
\* every surviving entry (a hit refreshes lastAccessed); setting a new key in a
\* full namespace leaves exactly maxCacheSize entries, the new key among them.
C3_LruVictimSelection ==
    [][/\ ret'.op = "cacheCompletion" =>
            /\ VictimsAreOldest(completionCache, {hashPrompt(ret'.arg)},
                                completionCache')
            /\ NewKeyIsKept(completionCache, hashPrompt(ret'.arg), completionCache')
       /\ ret'.op = "cacheContext" =>
            /\ VictimsAreOldest(contextCache, {ret'.arg}, contextCache')
            /\ NewKeyIsKept(contextCache, ret'.arg, contextCache')
       /\ ret'.op = "cleanup" =>
            /\ VictimsAreOldest(Sweep(completionCache, now), {}, completionCache')
            /\ VictimsAreOldest(Sweep(contextCache, now), {}, contextCache')
      ]_vars

\* cacheCompletion has just evicted an entry while keeping one that was stored
\* no later but read since
C3_Witness ==
    /\ ret.op = "cacheCompletion"
    /\ Len(completionCache) = maxCacheSize
    /\ MapHas(completionCache, hashPrompt(ret.arg))
    /\ \E d \in dropped, i \in 1..Len(completionCache) :
          /\ d.why = "lru"
          /\ completionCache[i].entry.timestamp <= d.entry.timestamp
          /\ completionCache[i].entry.accessCount > 0
          /\ completionCache[i].entry.lastAccessed > d.entry.lastAccessed

\* what a get of key k answers when the map holds an entry under k that was
\* stored with a positive ttl: the data while the entry is alive, null after;
\* alive is now <= expiry (atExpiry) or now < expiry (not atExpiry)
TtlAnswer(cache, k, value, atExpiry) ==
    (MapHas(cache, k) /\ MapGet(cache, k).timestamp < MapGet(cache, k).expiry) =>
        IF now < MapGet(cache, k).expiry
              \/ (atExpiry /\ now = MapGet(cache, k).expiry)
        THEN value = MapGet(cache, k).data
        ELSE value = Null

\* C4 as amended (SpecTtl): for an entry stored with a positive ttl and still
\* held, getCachedContext and getCachedCompletion return the stored value while
\* now <= expiry, the instant of expiry included, and null once now > expiry.
C4_TtlExpiryInclusive ==
    [][/\ ret'.op = "getCachedContext" =>
            TtlAnswer(contextCache, ret'.arg, ret'.value, TRUE)
       /\ ret'.op = "getCachedCompletion" =>
            TtlAnswer(completionCache, hashPrompt(ret'.arg), ret'.value, TRUE)
      ]_vars

\* C4 as stated (SpecTtl): the stored value while now < expiry, null once
\* now >= expiry, the instant of expiry included.
C4_TtlExpiryExclusive ==
    [][/\ ret'.op = "getCachedContext" =>
            TtlAnswer(contextCache, ret'.arg, ret'.value, FALSE)
       /\ ret'.op = "getCachedCompletion" =>
            TtlAnswer(completionCache, hashPrompt(ret'.arg), ret'.value, FALSE)
      ]_vars

\* getCachedContext has just hit an entry of positive ttl at the very instant
\* of its expiry
C4_Witness ==
    /\ ret.op = "getCachedContext"
    /\ MapHas(contextCache, ret.arg)
    /\ LET e == MapGet(contextCache, ret.arg)
       IN  /\ e.timestamp < e.expiry
           /\ e.expiry = now
           /\ e.data = ret.value

NonPositiveOrNaN(ttl) == ttl.kind = "NaN" \/ (ttl.kind = "number" /\ ttl.n <= 0)

\* C5 (SpecTtl): after cacheContext(key, value, ttl) with ttl negative, zero
\* or NaN, the very next getCachedContext(key) returns null.
C5_NonPositiveTtlIsExpired ==
    [][(/\ ret.op = "cacheContext"
        /\ NonPositiveOrNaN(ret.ttl)
        /\ ret'.op = "getCachedContext"
        /\ ret'.arg = ret.arg) => ret'.value = Null]_vars

\* the words of a prompt: its maximal runs of non-space characters, case-folded
FoldCase(c) == IF c = "A" THEN "a" ELSE c

RECURSIVE WordsOf(_, _)
WordsOf(s, word) ==
    IF s = <<>> THEN (IF word = <<>> THEN <<>> ELSE <<word>>)
    ELSE IF Head(s) = " "
         THEN (IF word = <<>> THEN <<>> ELSE <<word>>) \o WordsOf(Tail(s), <<>>)
         ELSE WordsOf(Tail(s), Append(word, FoldCase(Head(s))))

\* equal after trimming, collapsing whitespace and case-folding
SameNormalized(p, q) == WordsOf(p, <<>>) = WordsOf(q, <<>>)

\* C6 (SpecNormalize): getCachedCompletion(p2) right after cacheCompletion(p1, x)
\* returns x when p1 and p2 are equal after normalization; a get never returns
\* the value stored for a prompt that differs from its own after normalization.
C6_KeyNormalization ==
    [][ret'.op = "getCachedCompletion" =>
          /\ (ret.op = "cacheCompletion" /\ SameNormalized(ret.arg, ret'.arg))
                => ret'.value = ret.value
          /\ \A i \in {1, 2} :
                ~SameNormalized(input[i], ret'.arg) => ret'.value # DataOf(i)
      ]_vars

\* "a" hits the entry stored for " A "
C6_Witness ==
    /\ input = << <<" ", "A", " ">>, <<"a">> >>
    /\ ret = Ret("getCachedCompletion", "", <<"a">>, Undefined, "x")

InFlight(reqs) ==
    {i \in 1..Len(reqs) : reqs[i].pc \in {"context", "enhance", "backend"}}
Armed(reqs) == {i \in 1..Len(reqs) : reqs[i].pc = "scheduled"}

\* the provider entry of the prompt is in the map and has not expired
StoredFresh(cache, provider, prompt, t) ==
    /\ MapHas(cache, ProviderKey(provider, prompt))
    /\ ~Expired(MapGet(cache, ProviderKey(provider, prompt)), t)

\* C7: once the pipeline has stored a backend result for a prompt, a later
\* request with the same normalized prompt and provider, made before the
\* entry expires, resolves from the cached value and is not posted to the
\* backend.
C7_CacheShortCircuit ==
    [][\A i \in 1..Len(requests) :
          (/\ requests[i].pc = "context"
           /\ requests'[i].prompt # <<>>
           /\ StoredFresh(completionCache, Provider, requests'[i].prompt, now))
          => /\ requests'[i].pc = "resolved"
             /\ ~requests'[i].posted
             /\ requests'[i].value =
                   Resolution(
                     postProcessCompletion(
                       MapGet(completionCache,
                              ProviderKey(Provider, requests'[i].prompt)).data),
                     requests[i].token, requests[i].pos)]_vars

\* C8: at most one request is in flight at any moment, no timer is armed
\* while one is, and a call made while one is in flight returns undefined and
\* changes nothing else: no timer, no request to the backend, no queue.
C8_SingleFlight ==
    [][/\ Cardinality(InFlight(requests')) <= 1
       /\ (InFlight(requests') # {} => Armed(requests') = {})
       /\ (InFlight(requests) # {} /\ Len(requests') = Len(requests) + 1)
          => /\ requests'[Len(requests')].pc = "refused"
             /\ requests'[Len(requests')].value = NoSuggestion
             /\ SubSeq(requests', 1, Len(requests)) = requests
             /\ debounceTimer' = debounceTimer
             /\ isProcessing' = isProcessing
             /\ completionCache' = completionCache]_vars

\* a qualifying call was refused while an earlier request is in flight
C8_Witness ==
    \E i \in InFlight(requests) : \E j \in (i + 1)..Len(requests) :
        requests[j].pc = "refused" /\ requests[j].qualifies

\* the last call that armed a timer
LastTrigger(reqs) ==
    CHOOSE i \in 1..Len(reqs) :
        /\ reqs[i].pc # "refused"
        /\ \A j \in (i + 1)..Len(reqs) : reqs[j].pc = "refused"

\* C9: a qualifying trigger that arrives while a timer is pending clears that
\* timer and arms its own, so at most one timer is pending; a cleared timer
\* never runs; the callback that runs is the last trigger's, and the prompt it
\* builds comes from the document and position of that trigger.
C9_DebounceCollapsing ==
    [][/\ Cardinality(Armed(requests')) <= 1
       /\ \A i \in 1..Len(requests) :
             requests[i].pc = "cleared" => requests'[i] = requests[i]
       /\ (Len(requests') = Len(requests) + 1
             /\ requests'[Len(requests')].pc = "scheduled")
          => /\ Armed(requests') = {Len(requests')}
             /\ \A i \in Armed(requests) : requests'[i].pc = "cleared"
       /\ \A i \in 1..Len(requests) :
             (requests[i].pc = "scheduled"
                /\ requests'[i].pc \in {"context", "resolved"})
             => i = LastTrigger(requests)
       /\ \A i \in 1..Len(requests) :
             (requests[i].prompt = <<>> /\ requests'[i].prompt # <<>>)
             => requests'[i].prompt =
                   buildCompletionPrompt(requests[LastTrigger(requests)].doc,
                                         requests[LastTrigger(requests)].pos)
      ]_vars

\* two triggers in a row: the first timer was cleared, the second ran and
\* built its prompt from another document and position
C9_Witness ==
    \E i \in 1..Len(requests) : \E j \in (i + 1)..Len(requests) :
        /\ requests[i].pc = "cleared"
        /\ requests[i].doc # requests[j].doc
        /\ requests[j].prompt # <<>>
        /\ \A k \in (i + 1)..(j - 1) : requests[k].pc = "cleared"

\* C10: a request whose token was cancelled before it resolved, at the moment
\* its timer fired or at any later point of its work, resolved to undefined
\* and not to an insertion item.
C10_CancelledMeansNoSuggestion ==
    \A i \in 1..Len(requests) :
        (requests[i].pc = "resolved" /\ requests[i].token)
        => requests[i].value = NoSuggestion

\* the only request was cancelled while in flight; the backend answered with
\* a result that was stored, and the request resolved
C10_Witness ==
    /\ Len(requests) = 1
    /\ requests[1].pc = "resolved"
    /\ requests[1].token
    /\ requests[1].posted
    /\ MapHas(completionCache, ProviderKey(Provider, requests[1].prompt))
    /\ Truthy(postProcessCompletion(
                MapGet(completionCache,
                       ProviderKey(Provider, requests[1].prompt)).data))

\* C11: a request cancelled after its timer fired and before the backend
\* call (while either context is being built) is not posted to the backend,
\* and the step it takes stores nothing in the cache.
C11_CancellationCheckpoints ==
    [][\A i \in 1..Len(requests) :
          (requests[i].pc \in {"context", "enhance"} /\ requests[i].token)
          => /\ ~requests'[i].posted
             /\ MapKeys(completionCache') \subseteq MapKeys(completionCache)
      ]_vars

\* C12: isProcessing is set exactly while a request is in flight, so it is
\* false again once the callback has ended by any path; a qualifying call made
\* when nothing is in flight is scheduled; and the flag, once set, is
\* eventually cleared.
C12_ReturnToIdle ==
    /\ [](isProcessing <=> InFlight(requests) # {})
    /\ [][(Len(requests') = Len(requests) + 1 /\ InFlight(requests) = {}
             /\ requests'[Len(requests')].qualifies)
          => requests'[Len(requests')].pc = "scheduled"]_vars
    /\ (isProcessing ~> ~isProcessing)

\* a request ended with the backend's error, and a later qualifying call was
\* scheduled after it
C12_Witness ==
    \E i \in 1..Len(requests) : \E j \in (i + 1)..Len(requests) :
        /\ requests[i].pc = "resolved"
        /\ requests[i].posted
        /\ requests[i].value = NoSuggestion
        /\ ~requests[i].token
        /\ requests[j].pc = "scheduled"
        /\ ~isProcessing

\* C13: requests for different documents are independent: a call for one
\* document leaves the scheduled timer of another document armed, and a
\* qualifying call is scheduled unless a request for its own document is in
\* flight.
C13_IndependentSessions ==
    [][Len(requests') = Len(requests) + 1
       => /\ \A i \in Armed(requests) :
                requests[i].doc # requests'[Len(requests')].doc
                => requests'[i].pc = "scheduled"
          /\ (requests'[Len(requests')].qualifies
                /\ \A i \in InFlight(requests) :
                      requests[i].doc # requests'[Len(requests')].doc)
             => requests'[Len(requests')].pc = "scheduled"]_vars

\* the outcomes of a backend call that failed or produced nothing
FailedOutcomes == {o \in BackendOutcomes : ~o.ok \/ o.result = ""}

\* C14: when the backend call fails or yields an empty result, the request
\* resolves to no suggestion and the cache is left as it was; a later request
\* that finds no entry for its prompt goes on to the backend.
C14_FailureNotCached ==
    [][/\ \A i \in 1..Len(requests) : \A o \in FailedOutcomes :
             BackendDone(i, o)
             => /\ requests'[i].value = NoSuggestion
                /\ completionCache' = completionCache
       /\ \A j \in 1..Len(requests) :
             (/\ requests[j].pc = "context"
              /\ requests'[j].prompt # <<>>
              /\ ~MapHas(completionCache,
                         ProviderKey(Provider, requests'[j].prompt))
              /\ ~MapHas(completionCache, hashPrompt(requests'[j].prompt)))
             => requests'[j].pc = "enhance"]_vars

\* a request was posted and resolved leaving no entry for its prompt, and a
\* later request with the same prompt was posted again
C14_Witness ==
    \E i \in 1..Len(requests) : \E j \in (i + 1)..Len(requests) :
        /\ requests[i].pc = "resolved"
        /\ requests[i].posted
        /\ requests[i].value = NoSuggestion
        /\ requests[j].prompt = requests[i].prompt
        /\ requests[j].posted
        /\ requests[j].pc = "backend"
        /\ completionCache = <<>>

\* C15: a file notification for a URI removes every file entry of that URI,
\* whatever its version, and a getter never returns an entry that is not in
\* the map: the removed entries are not returned until cached again.
C15_FileInvalidation ==
    [][/\ ret'.op = "invalidateFileCache"
          => \A v \in Versions : ~MapHas(contextCache', FileKey(ret'.arg, v))
       /\ (ret'.op = "getCachedContext" /\ ret'.value # Null)
          => MapHas(contextCache, ret'.arg)]_vars

\* a notification removed the entries of two versions of one file
C15_Witness ==
    /\ ret.op = "invalidateFileCache"
    /\ \A v \in Versions : \E d \in dropped : d.key = FileKey(ret.arg, v)

\* C16: a workspace-folder notification empties the context namespace:
\* no entry cached before it, whatever its key, is left to be returned.
C16_WorkspaceInvalidation ==
    [][ret'.op = "invalidateWorkspaceCache" => contextCache' = <<>>]_vars

\* no entry of the map is past its expiry at time t
NoneExpired(cache, t) == \A i \in 1..Len(cache) : ~Expired(cache[i].entry, t)

\* every entry of before that has not expired at time t is still in after
UnexpiredKept(before, after, t) ==
    \A i \in 1..Len(before) :
        ~Expired(before[i].entry, t) => MapHas(after, before[i].key)

\* C17: right after a sweep no namespace holds an expired entry, and the
\* entries that had not expired are still in place.
C17_BackgroundSweep ==
    [][ret'.op = "cleanup"
       => /\ NoneExpired(completionCache', now)
          /\ NoneExpired(contextCache', now)
          /\ UnexpiredKept(completionCache, completionCache', now)
          /\ UnexpiredKept(contextCache, contextCache', now)]_vars

\* C18: with no active editor buildWorkspaceContext returns the empty context
\* (no current file, no related files, no imports, project type and workspace
\* name "unknown") and leaves the memo as it was.
C18_EmptyContext ==
    [][(ret'.op = "buildWorkspaceContext" /\ ret'.arg = NoEditor)
       => /\ ret'.value.currentFile = Null
          /\ ret'.value.relatedFiles = <<>>
          /\ ret'.value.imports = <<>>
          /\ ret'.value.projectType = "unknown"
          /\ ret'.value.workspaceName = "unknown"
          /\ memo' = memo]_vars

\* a build with no editor, made while the memo holds a context
C18_Witness ==
    /\ ret.op = "buildWorkspaceContext"
    /\ ret.arg = NoEditor
    /\ memo # NoMemo

\* at most maxRelatedFiles entries, relevance descending, no uri twice
WellFormedRelated(files) ==
    /\ Len(files) <= maxRelatedFiles
    /\ \A i \in 1..Len(files) : \A j \in (i + 1)..Len(files) :
          /\ files[i].relevanceScore >= files[j].relevanceScore
          /\ files[i].uri # files[j].uri

\* C19: in every context buildWorkspaceContext returns (fresh, memoized or
\* empty) relatedFiles has at most maxRelatedFiles entries, is ordered by
\* relevanceScore descending and holds no uri twice.
C19_RelatedFilesInvariant ==
    /\ ret.op = "buildWorkspaceContext"
          => WellFormedRelated(ret.value.relatedFiles)
    /\ \A u \in DOMAIN memo : WellFormedRelated(memo[u].relatedFiles)

\* a full list was built from more candidates than fit, one of them found by
\* two searches
C19_Witness ==
    /\ ret.op = "buildWorkspaceContext"
    /\ Len(ret.value.relatedFiles) = maxRelatedFiles
    /\ Cardinality(input.open \cup input.dir \cup input.imported
                       \cup input.similar) > maxRelatedFiles
    /\ input.open \cap input.similar # {}

\* the scores under which the searches found the file
ScoresOf(ws, f) ==
    (IF f \in ws.open THEN {8} ELSE {}) \cup
    (IF f \in ws.dir THEN {6} ELSE {}) \cup
    (IF f \in ws.imported THEN {7} ELSE {}) \cup
    (IF f \in ws.similar THEN {4} ELSE {})

\* C20: a file found by more than one search has exactly one entry in the
\* merged list, and that entry carries the highest of its scores.
C20_DedupKeepsBestScore ==
    (ret.op = "buildWorkspaceContext" /\ ret.arg # NoEditor)
    => \A i \in 1..Len(ret.value.relatedFiles) :
          /\ \A j \in 1..Len(ret.value.relatedFiles) :
                ret.value.relatedFiles[j].uri = ret.value.relatedFiles[i].uri
                => j = i
          /\ \A sc \in ScoresOf(input, ret.value.relatedFiles[i].uri) :
                ret.value.relatedFiles[i].relevanceScore >= sc

\* C21: every file the current file imports by a relative path, and that
\* resolves to an existing file, is in the pool of imported candidates with
\* relevance 0.7.
C21_ResolvedImportsPool ==
    (ret.op = "buildWorkspaceContext" /\ ret.arg # NoEditor)
    => \A f \in input.imported :
          \E i \in 1..Len(findImportedFiles(input)) :
              findImportedFiles(input)[i] = FileContext(f, FALSE, 7)

\* C22: a build for an active document returns the memoized context only
\* when the memo's stored currentFile.content equals the document's live
\* text, and then leaves the memo alone; on a mismatch (or no memo) the
\* returned context is freshly built and becomes the memo; either way the
\* returned current-file content is the live text.
C22_MemoValidity ==
    [][(ret'.op = "buildWorkspaceContext" /\ ret'.arg # NoEditor) =>
        LET e == ret'.arg
            valid == /\ e.uri \in DOMAIN memo
                     /\ memo[e.uri].currentFile.content = e.text
        IN  /\ ret'.value.currentFile.content = e.text
            /\ valid => (ret'.value = memo[e.uri] /\ memo' = memo)
            /\ ~valid => /\ ret'.value = buildFreshContext(e, input)
                         /\ e.uri \in DOMAIN memo'
                         /\ memo'[e.uri] = ret'.value
       ]_vars

\* a build on text t2 whose result is the memo, and a memo hit on it
C22_Witness ==
    /\ ret.op = "buildWorkspaceContext"
    /\ ret.arg = Editor("a", "t2")
    /\ "a" \in DOMAIN memo
    /\ memo["a"] = ret.value
    /\ ret.value.currentFile.content = "t2"

FoundByPatterns ==
    IF ret.op = "searchDefinitions"
    THEN PatternResults(input,
                        getDefinitionPatterns(ret.arg.query.src[1],
                                              ret.arg.language),
                        definitionOptions).results
    ELSE PatternResults(input, todoPatterns, todoOptions).results

SameLine(a, b) == a.uri = b.uri /\ a.lineNumber = b.lineNumber

\* C24: the list searchDefinitions or searchTodos returns holds one
\* SearchResult for each (file, line) its patterns matched, and that result
\* carries the highest relevanceScore any of the patterns gave the line.
C24_SearchDedup ==
    ret.op \in {"searchDefinitions", "searchTodos"} =>
        LET rs == ret.value.results
            found == FoundByPatterns
        IN  /\ \A i, j \in 1..Len(rs) : SameLine(rs[i], rs[j]) => i = j
            /\ \A k \in 1..Len(found) :
                   \E i \in 1..Len(rs) : SameLine(rs[i], found[k])
            /\ \A i \in 1..Len(rs) : \A k \in 1..Len(found) :
                   SameLine(rs[i], found[k]) =>
                       rs[i].relevanceScore >= found[k].relevanceScore

Min(a, b) == IF a < b THEN a ELSE b

CountAtLeast(rs, v) ==
    Cardinality({i \in 1..Len(rs) : rs[i].relevanceScore >= v})

\* every match of the last searchWorkspace call, in the order the folders
\* and files were searched
Collected ==
    WorkspaceResults(input.folders, ret.arg.query,
                     normalizeSearchOptions(ret.arg.options)).results

\* C25: searchWorkspace returns results in descending relevanceScore, at
\* most maxResults of them (50 when the option is not given), each a
\* collected match, and for every score v as many results scoring at least
\* v as the cap allows: the top-scoring of all matches of all folders.
C25_SearchRankingAndCap ==
    ret.op = "searchWorkspace" =>
        LET rs == ret.value.results
            m == ret.arg.options.maxResults
            cap == IF m.kind = "undefined" THEN 50 ELSE m.n
            all == Collected
        IN  /\ \A i \in 1..(Len(rs) - 1) :
                   rs[i].relevanceScore >= rs[i + 1].relevanceScore
            /\ Len(rs) <= cap
            /\ \A i \in 1..Len(rs) : \E k \in 1..Len(all) : rs[i] = all[k]
            /\ \A k \in 1..Len(all) :
                   CountAtLeast(rs, all[k].relevanceScore) =
                       Min(cap, CountAtLeast(all, all[k].relevanceScore))

\* a search capped at one result over two folders with matches, where the
\* first match collected is not the best one
C25_Witness ==
    /\ ret.op = "searchWorkspace"
    /\ ret.arg.options.maxResults = Num(1)
    /\ Len(ret.value.results) = 1
    /\ Len(input.folders) = 2
    /\ \A d \in 1..2 :
           searchFolder(input.folders[d], ret.arg.query,
                        normalizeSearchOptions(ret.arg.options)).results
               # <<>>
    /\ Collected[1].relevanceScore < ret.value.results[1].relevanceScore

\* the lines of the file a result is from
LinesOf(ws, uri) ==
    LET d == CHOOSE d \in 1..Len(ws.folders) :
                 \E f \in 1..Len(ws.folders[d].files) :
                     ws.folders[d].files[f].uri = uri
        f == CHOOSE f \in 1..Len(ws.folders[d].files) :
                 ws.folders[d].files[f].uri = uri
    IN  ws.folders[d].files[f].lines

\* C26: in a searchWorkspace call with contextLines = c, a result on line
\* index i (from 0) of a file of n lines has as contextBefore the min(c, i)
\* lines just before the line and as contextAfter the min(c, n - 1 - i)
\* lines just after it, for every c >= 0.
C26_ContextWindow ==
    (ret.op = "searchWorkspace"
        /\ ret.arg.options.contextLines.kind = "number") =>
        LET c == ret.arg.options.contextLines.n
            rs == ret.value.results
        IN  \A k \in 1..Len(rs) :
                LET lines == LinesOf(input, rs[k].uri)
                    i == rs[k].lineNumber - 1
                    n == Len(lines)
                IN  /\ rs[k].contextBefore =
                           SubSeq(lines, i - Min(c, i) + 1, i)
                    /\ rs[k].contextAfter =
                           SubSeq(lines, i + 2, i + 1 + Min(c, n - 1 - i))

\* the workspace without the files that cannot be read and with nothing in
\* the folders and pools that cannot be enumerated
WithoutFailures(ws) ==
    [folders |-> [d \in 1..Len(ws.folders) |->
                     [ok |-> TRUE,
                      files |-> IF ws.folders[d].ok
                                THEN SelectSeq(ws.folders[d].files,
                                               LAMBDA f : f.readable)
                                ELSE <<>>]],
     open |-> ws.open \ ws.unreadable,
     dir |-> IF "dir" \in ws.failing THEN {} ELSE ws.dir \ ws.unreadable,
     imported |-> ws.imported \ ws.unreadable,
     similar |-> IF "similar" \in ws.failing THEN {}
                 ELSE ws.similar \ ws.unreadable,
     unreadable |-> {}, failing |-> {}]

\* C27: a search or a context build over a workspace in which a file cannot
\* be read, or a folder or directory cannot be enumerated, does not throw
\* and returns what it returns over the same workspace without that file or
\* that enumeration: every result from the other files and folders.
C27_SkipOnIoFailure ==
    /\ ret.op = "searchWorkspace" =>
           ret.value = searchWorkspace(WithoutFailures(input), ret.arg.query,
                                       ret.arg.options)
    /\ ret.op = "searchDefinitions" =>
           ret.value = searchDefinitions(WithoutFailures(input),
                                         ret.arg.query.src[1],
                                         ret.arg.language)
    /\ ret.op = "searchTodos" =>
           ret.value = searchTodos(WithoutFailures(input))
    /\ ret.op \in {"searchWorkspace", "searchDefinitions", "searchTodos"} =>
           ~ret.value.threw
    /\ (ret.op = "buildWorkspaceContext" /\ ret.arg # NoEditor) =>
           ret.value.relatedFiles = findRelatedFiles(WithoutFailures(input))

\* a search that returns matches from a folder in which another file could
\* not be read, beside a folder that could not be enumerated
C27_Witness ==
    /\ ret.op = "searchWorkspace"
    /\ ret.value.results # <<>>
    /\ \E d \in 1..Len(input.folders) :
           /\ input.folders[d].ok
           /\ \E f \in 1..Len(input.folders[d].files) :
                  ~input.folders[d].files[f].readable
           /\ \E k \in 1..Len(ret.value.results) :
                  \E f \in 1..Len(input.folders[d].files) :
                      input.folders[d].files[f].uri =
                          ret.value.results[k].uri
    /\ \E d \in 1..Len(input.folders) :
           ~input.folders[d].ok /\ input.folders[d].files # <<>>

\* a context build that lists a file of a pool beside a file that could not
\* be read
C27_WitnessContext ==
    /\ ret.op = "buildWorkspaceContext"
    /\ ret.arg # NoEditor
    /\ input.unreadable # {}
    /\ input.unreadable \subseteq input.open
    /\ "dir" \in input.failing
    /\ input.dir # {}
    /\ ret.value.relatedFiles # <<>>

\* C28: a search never throws; a searchWorkspace call whose query does not
\* compile as a regular expression returns no results; and a pattern that
\* does not compile, put before the patterns of searchDefinitions or of
\* searchTodos, changes nothing in what the other patterns return.
C28_UnparsableRegex ==
    /\ ret.op \in {"searchWorkspace", "searchDefinitions", "searchTodos"} =>
           ~ret.value.threw
    /\ (ret.op = "searchWorkspace" /\ ret.arg.options.useRegex = Bool(TRUE)
            /\ ~ret.arg.query.compiles) => ret.value.results = <<>>
    /\ ret.op = "searchDefinitions" =>
           LET patterns == getDefinitionPatterns(ret.arg.query.src[1],
                                                 ret.arg.language)
               r == PatternResults(input, <<QueryOpenGroup>> \o patterns,
                                   definitionOptions)
           IN  ~r.threw /\ deduplicateResults(r.results) = ret.value.results
    /\ ret.op = "searchTodos" =>
           LET r == PatternResults(input, <<QueryOpenGroup>> \o todoPatterns,
                                   todoOptions)
           IN  ~r.threw /\ sortByPath(r.results) = ret.value.results

\* a regular-expression search for an unbalanced parenthesis over files that
\* hold the text it starts with
C28_Witness ==
    /\ ret.op = "searchWorkspace"
    /\ ret.arg.query = QueryOpenGroup
    /\ ret.arg.options.useRegex = Bool(TRUE)
    /\ ret.value = Returned(<<>>)
    /\ searchWorkspace(input, QueryFoo, ret.arg.options).results # <<>>

\* the last call of provideInlineCompletionItems took this step
Triggered == Len(requests') = Len(requests) + 1

\* C29: a call of provideInlineCompletionItems passes the gate exactly when
\* (a) the text after the cursor is empty or blank, (b) the text before it
\* is not judged to be in an open string or a comment, and (c) the text
\* before it matches a pattern of the common set or of the set of the
\* document's language; a call that fails the gate returns undefined and
\* leaves the timer and the earlier requests as they were.
C29_EligibilityGate ==
    [][Triggered =>
        LET r == requests'[Len(requests')]
            a == \A i \in 1..Len(input.after) : IsBlank(input.after[i])
            b == ~isInStringOrComment(input.before, input.languageId)
            own == IF input.languageId = "typescript" THEN typescriptPatterns
                   ELSE IF input.languageId = "python" THEN pythonPatterns
                   ELSE <<>>
            c == \/ \E n \in 1..Len(commonPatterns) :
                        test(commonPatterns[n], input.before)
                 \/ \E n \in 1..Len(own) : test(own[n], input.before)
        IN  /\ r.qualifies <=> (a /\ b /\ c)
            /\ ~(a /\ b /\ c) =>
                   /\ r.value = NoSuggestion
                   /\ debounceTimer' = debounceTimer
                   /\ SubSeq(requests', 1, Len(requests)) = requests
       ]_vars

\* a call that failed the gate on the text after the cursor while the timer
\* of an earlier call is pending
C29_Witness ==
    /\ Len(requests) >= 2
    /\ debounceTimer = 1
    /\ requests[1].pc = "scheduled"
    /\ requests[Len(requests)].pc = "refused"
    /\ input.after = <<";">>
    /\ shouldTriggerIgnoringRest(input)

TotalOps ==
    {"cacheCompletion", "getCachedCompletion", "cacheContext",
     "getCachedContext", "invalidateFileCache"}

\* every entry of the map before is in the map after, as it was
EntriesKept(before, after) ==
    \A k \in MapKeys(before) :
        MapHas(after, k) /\ MapGet(after, k) = MapGet(before, k)

\* C30: cacheCompletion, getCachedCompletion, cacheContext, getCachedContext
\* and invalidateFileCache never throw, whatever the key, the URI, the ttl
\* or the prompt (null and undefined included); a lookup of a key that is
\* not held returns null and leaves every entry as it was, and so does an
\* invalidation for a URI no key holds.
C30_Totality ==
    [][/\ ret'.op \in TotalOps => ret'.value # TypeError
       /\ (ret'.op = "getCachedCompletion" /\ ~IsNullish(ret'.arg)
              /\ ~MapHas(completionCache, hashPrompt(ret'.arg))) =>
              /\ ret'.value = Null
              /\ EntriesKept(completionCache, completionCache')
              /\ EntriesKept(contextCache, contextCache')
       /\ (ret'.op = "getCachedContext"
              /\ ~MapHas(contextCache, ret'.arg)) =>
              /\ ret'.value = Null
              /\ EntriesKept(completionCache, completionCache')
              /\ EntriesKept(contextCache, contextCache')
       /\ (ret'.op = "invalidateFileCache"
              /\ \A k \in MapKeys(contextCache) : ~includes(k, ret'.arg)) =>
              /\ EntriesKept(completionCache, completionCache')
              /\ EntriesKept(contextCache, contextCache')
      ]_vars

\* C31: the list one searchWorkspace call returns holds at most one
\* SearchResult per (uri, lineNumber), also when the query matches several
\* times on a line, and the result kept for a line scores at least as high
\* as every match collected on that line.
C31_OneResultPerLine ==
    ret.op = "searchWorkspace" =>
        LET rs == ret.value.results
            all == Collected
        IN  /\ \A i, j \in 1..Len(rs) : SameLine(rs[i], rs[j]) => i = j
            /\ \A i \in 1..Len(rs) : \A k \in 1..Len(all) :
                   SameLine(rs[i], all[k]) =>
                       rs[i].relevanceScore >= all[k].relevanceScore

\* the namespace the last get read, before and after it, and the key it read
GetBefore == IF ret'.op = "getCachedContext" THEN contextCache
             ELSE completionCache
GetAfter == IF ret'.op = "getCachedContext" THEN contextCache'
            ELSE completionCache'
GetKey == IF ret'.op = "getCachedContext" THEN ret'.arg
          ELSE hashPrompt(ret'.arg)
IsGet == ret'.op \in {"getCachedContext", "getCachedCompletion"}

\* every entry of the namespace but the one under k is after as before
OthersUnchanged(before, after, k) ==
    /\ \A j \in MapKeys(before) \ {k} :
           MapHas(after, j) /\ MapGet(after, j) = MapGet(before, j)
    /\ MapKeys(after) \subseteq MapKeys(before)

\* C32: a get of a key whose entry has now > expiry returns null and removes
\* that entry: the namespace is one entry smaller, the key is no longer
\* held, a get of the same key right after is null again, and every other
\* entry of both namespaces is as it was.
C32_LazyExpiry ==
    [][/\ (IsGet /\ MapHas(GetBefore, GetKey)
              /\ now > MapGet(GetBefore, GetKey).expiry) =>
              /\ ret'.value = Null
              /\ ~MapHas(GetAfter, GetKey)
              /\ Len(GetAfter) = Len(GetBefore) - 1
              /\ OthersUnchanged(GetBefore, GetAfter, GetKey)
              /\ ret'.op = "getCachedContext" =>
                     completionCache' = completionCache
              /\ ret'.op = "getCachedCompletion" =>
                     contextCache' = contextCache
       /\ (IsGet /\ ret.op = ret'.op /\ ret.arg = ret'.arg
              /\ ret.value = Null) => ret'.value = Null
      ]_vars

\* a get that found its entry expired and removed it beside an entry that
\* stays
C32_Witness ==
    /\ ret.op = "getCachedContext"
    /\ ret.value = Null
    /\ \E d \in dropped : d.key = ret.arg /\ d.why = "expired"
                             /\ now > d.entry.expiry
    /\ Len(contextCache) = 1
    /\ ~MapHas(contextCache, ret.arg)

\* the namespace the last set wrote, before and after it, the key it wrote
\* and the ttl it wrote with
IsSet == ret'.op \in {"cacheContext", "cacheCompletion"}
           /\ ret'.value # TypeError
SetBefore == IF ret'.op = "cacheContext" THEN contextCache
             ELSE completionCache
SetAfter == IF ret'.op = "cacheContext" THEN contextCache'
            ELSE completionCache'
SetKey == IF ret'.op = "cacheContext" THEN ret'.arg
          ELSE hashPrompt(ret'.arg)
SetTtl == IF ret'.op = "cacheContext" THEN ret'.ttl.n ELSE completionTtl

RECURSIVE SumOfCounts(_)
SumOfCounts(cache) ==
    IF cache = <<>> THEN 0
    ELSE Head(cache).entry.accessCount + SumOfCounts(Tail(cache))

\* C34: a get that returns a value adds exactly 1 to the accessCount of its
\* entry and sets its lastAccessed to now, and changes no other entry; a get
\* that returns null changes no accessCount and no lastAccessed of the
\* entries that stay; getCacheStats reports for each namespace the number
\* of entries held as size and the sum of their accessCount as hits, and
\* changes nothing.
C34_HitAccounting ==
    [][/\ (IsGet /\ ret'.value # Null) =>
              /\ MapHas(GetAfter, GetKey)
              /\ MapGet(GetAfter, GetKey) =
                     [MapGet(GetBefore, GetKey) EXCEPT
                         !.accessCount = @ + 1, !.lastAccessed = now]
              /\ OthersUnchanged(GetBefore, GetAfter, GetKey)
       /\ (IsGet /\ ret'.value = Null) =>
              \A k \in MapKeys(GetAfter) :
                  /\ MapHas(GetBefore, k)
                  /\ MapGet(GetAfter, k) = MapGet(GetBefore, k)
       /\ (IsGet /\ ret'.op = "getCachedContext") =>
              completionCache' = completionCache
       /\ (IsGet /\ ret'.op = "getCachedCompletion") =>
              contextCache' = contextCache
       /\ ret'.op = "getCacheStats" =>
              /\ ret'.value = ToString(
                     [completions |->
                          [size |-> Cardinality(MapKeys(completionCache)),
                           hits |-> SumOfCounts(completionCache),
                           misses |-> 0],
                      context |->
                          [size |-> Cardinality(MapKeys(contextCache)),
                           hits |-> SumOfCounts(contextCache),
                           misses |-> 0]])
              /\ completionCache' = completionCache
              /\ contextCache' = contextCache
      ]_vars

\* statistics read while both context entries and the completion entry
\* have been hit
C34_Witness ==
    /\ ret.op = "getCacheStats"
    /\ Len(contextCache) = 2
    /\ SumOfCounts(contextCache) = 2
    /\ SumOfCounts(completionCache) = 1

ScanRunning == ret.value.running

\* the matches pushed so far start at strictly increasing positions, none
\* reaches into the next, each is the text of the line at its position, and
\* fewer were pushed than the cut-off; a loop that has ended returns what
\* findMatches returns
ScanOrdered ==
    LET ms == ret.value.matches
    IN  /\ \A n \in 1..Len(ms) :
               /\ ms[n].index \in 1..(Len(input.line) + 1)
               /\ ms[n].text = SubSeq(input.line, ms[n].index,
                                      ms[n].index + Len(ms[n].text) - 1)
        /\ \A n \in 1..(Len(ms) - 1) :
               /\ ms[n].index < ms[n + 1].index
               /\ ms[n].index + Len(ms[n].text) <= ms[n + 1].index
        /\ Len(ms) < MaxMatches
        /\ ~ScanRunning =>
               ms = findMatches(input.line, input.regex,
                                normalizeSearchOptions(todoOptions))

\* C35: for every line and every compiled expression, also one that matches
\* the empty string, the loop of findMatches ends, and the matches it
\* reports start at strictly increasing positions, do not overlap and come
\* left to right.
C35_MatchScanTerminates ==
    /\ []ScanOrdered
    /\ ScanRunning ~> ~ScanRunning

\* a finished scan for \s* over a line of eight tokens: nine matches, the
\* last one the empty match at the end of the line
C35_Witness ==
    /\ ~ScanRunning
    /\ input.regex = <<Blanks0>>
    /\ input.line = LineTodo
    /\ Len(ret.value.matches) = 9
    /\ ret.value.matches[9] = [text |-> <<>>, index |-> 9]

\* the last call returned a ranked list
IsRanked ==
    \/ ret.op = "searchWorkspace"
    \/ ret.op = "buildWorkspaceContext" /\ ret.arg # NoEditor

\* the ranked list the last call returned
Ranked ==
    IF ret.op = "searchWorkspace" THEN ret.value.results
    ELSE ret.value.relatedFiles

\* what the last call found, in the order it found it: the matches of the
\* folders and files in turn, or the first occurrence of every file of the
\* four searches in turn
FoundInOrder ==
    IF ret.op = "searchWorkspace" THEN Collected
    ELSE deduplicateFiles(getOpenEditorFiles(input)
                              \o findSameDirectoryFiles(input)
                              \o findImportedFiles(input)
                              \o findSimilarFiles(input))

\* the place of a returned entry among the found ones
PlaceFound(r) ==
    CHOOSE k \in 1..Len(FoundInOrder) : FoundInOrder[k] = r

\* C36: in the list of a search and in relatedFiles, entries with the same
\* relevanceScore stand in the order they were found in, and when the cap
\* cuts the list among entries of one score it keeps the ones found first.
C36_StableTies ==
    IsRanked =>
        LET rs == Ranked
            all == FoundInOrder
        IN  /\ \A i \in 1..Len(rs) : \E k \in 1..Len(all) : all[k] = rs[i]
            /\ \A i, j \in 1..Len(rs) :
                   (i < j /\ rs[i].relevanceScore = rs[j].relevanceScore)
                       => PlaceFound(rs[i]) < PlaceFound(rs[j])
            /\ \A i \in 1..Len(rs) : \A k \in 1..Len(all) :
                   (all[k].relevanceScore = rs[i].relevanceScore
                        /\ k < PlaceFound(rs[i]))
                       => \E j \in 1..Len(rs) : rs[j] = all[k]

\* a search capped at one result that found two matches of the same score:
\* the one found first is the one returned
C36_Witness ==
    /\ ret.op = "searchWorkspace"
    /\ ret.arg.options.maxResults = Num(1)
    /\ Len(Collected) >= 2
    /\ Collected[1].relevanceScore = Collected[2].relevanceScore
    /\ \A k \in 1..Len(Collected) :
           Collected[k].relevanceScore <= Collected[1].relevanceScore
    /\ ret.value.results = <<Collected[1]>>

\* a context build that found three open files, all of one score, and kept
\* the first maxRelatedFiles of them
C36_WitnessContext ==
    /\ ret.op = "buildWorkspaceContext"
    /\ ret.arg # NoEditor
    /\ input.open = Files
    /\ Len(ret.value.relatedFiles) = maxRelatedFiles
    /\ \A i \in 1..maxRelatedFiles :
           ret.value.relatedFiles[i].uri = FileOrder[i]

\* the promise of the i-th call was resolved (a refused call returns
\* undefined, which resolves at once)
PromiseResolved(i) ==
    /\ Len(requests) >= i
    /\ requests[i].pc \in {"refused", "resolved"}

\* C37: the promise of every call of provideInlineCompletionItems is
\* eventually resolved, with items or with undefined, also when a later call
\* or dispose cleared its timer.
C37_EveryRequestResolves ==
    \A i \in 1..MaxRequests : (Len(requests) >= i) ~> PromiseResolved(i)

\* C38: what getCachedProviderResponse(p, q) returns is null or the response
\* held under the key of provider p and the normalized q, which only
\* cacheProviderResponse writes; it is never a completion that cacheCompletion
\* stored (every value cacheCompletion stores is in CompletionData, every
\* response in ResponseData).
C38_ProviderIsolation ==
    (ret.op = "getCachedProviderResponse" /\ ret.value # Null) =>
        /\ ret.value \in ResponseData
        /\ ret.value \notin CompletionData
        /\ MapHas(completionCache, ProviderKey(ret.provider, ret.arg))
        /\ MapGet(completionCache, ProviderKey(ret.provider, ret.arg)).data
               = ret.value

\* the keys under which the entries of file uri are held
KeysOfFile(uri) == {FileKey(uri, v) : v \in Versions}

\* every entry of before whose key is not in keys stands in after as it was
KeptBut(before, after, keys) ==
    \A i \in 1..Len(before) :
        before[i].key \notin keys
            => /\ MapHas(after, before[i].key)
               /\ MapGet(after, before[i].key) = before[i].entry

\* C39: invalidateFileCache(u) leaves every context entry that is not keyed
\* for file u as it was (entries of other files, also of a file whose URI
\* holds u as a part, workspace entries, plain keys), and leaves the
\* completion namespace as it was.
C39_FileInvalidationFrame ==
    [][ret'.op = "invalidateFileCache"
       => /\ KeptBut(contextCache, contextCache', KeysOfFile(ret'.arg))
          /\ completionCache' = completionCache]_vars

\* C40: while a request waits for the context its timer callback asked for,
\* that context is the one of the document the request was made on: its
\* currentFile.uri is the uri of the request's document, whatever the user
\* did in the editor window since the call.
C40_ContextOfRequestingDocument ==
    \A i \in 1..Len(requests) :
        requests[i].pc = "context" =>
            /\ ret.op = "buildWorkspaceContext"
            /\ ret.arg # NoEditor
            /\ ret.value.currentFile.uri = requests[i].doc

====
